---- MODULE Spec2Model ----
(***************************************************************************)
(* Model of libra/engine/backward.py: the parallel pre-analysis            *)
(* (BackwardInterpreter.worker1, feasibility, packing with its producer    *)
(* and consumers), the driver that joins the workers and compresses the    *)
(* patterns (analyze), and the bias analysis (worker2, bias_check).        *)
(*                                                                         *)
(* Percentages are exact rationals in the claims; here a percentage p is   *)
(* held as the integer p * Scale, so that every division the code makes    *)
(* (percent / 2, percent * len(pack) / count, percent / len(unpacked),     *)
(* percent * biased_size / total_size) is exact.  Range bounds are held in *)
(* units of 1 / RangeOne.                                                  *)
(***************************************************************************)
EXTENDS Integers, Sequences, FiniteSets, Bags, TLC

\* ---------------------------------------------------------------- bounds
MaxCpu == 2             \* cpu_count() ranges over 1..MaxCpu
MaxArity == 2           \* arity of the one-hot uncontroversial group
MaxReal == 1            \* number of custom encoded uncontroversial features
MaxHalvings == 1        \* difference ranges over 1, 1/2, ..., 1/2^MaxHalvings
MaxChunks == 2          \* most chunks a run can end with: count * (1 / difference)^(real features)
MaxVariables == 3       \* most variables in the list given to one_hots
MaxNodes == 3           \* most nodes in the chain CFG given to from_node

\* ---------------------------------------------------------------- the network
\* self.sensitive: the variables that one-hot encode the sensitive feature
sensitive == <<"s1", "s2">>
\* self.activations: the activation nodes
activations == {"relu1"}
NumValues == Len(sensitive)
NumActivations == Cardinality(activations)
\* widening=2, the default of BackwardInterpreter.__init__
DefaultWidening == 2

VARIABLES
    cfg,            \* the run's parameters: cpu, uncontroversial1, uncontroversial2, difference, widening
    queue1,         \* Q1: partition tasks and sentinels
    w1,             \* the Worker-1 processes: the bag of their pc and locals (a process's
                    \* id and color are used for logging only)
    partitions,     \* self.partitions
    feasible,       \* self.feasible
    explored,       \* self.explored
    patterns,       \* self.patterns
    packs,          \* self.packs
    lock,           \* the module's lock: TRUE while a process holds it
    queue3,         \* Q3 of the current packing call
    producer,       \* the producer process of the current packing call
    consumers,      \* the consumer processes of the current packing call (a bag)
    driver,         \* where analyze() is
    tookFeasible,   \* history: the bag of the chunks that took the feasible branch
    tookAbandon,    \* history: the bag of the chunks that took the abandon branch
    posted,         \* history: number of partition tasks put on Q1
    dequeued,       \* history: number of partition tasks taken from Q1
    compressed,     \* the dict compressed of analyze(), in insertion order
    queue2,         \* Q2: the prioritized patterns and sentinels
    w2,             \* the Worker-2 processes: the bag of their pc and locals
    biased,         \* self.biased
    analyzed,       \* self.analyzed
    invocation      \* the call of one_hots or of from_node that is examined alone, if any

\* the state of the pre-analysis, but for where the driver is
preVars == <<cfg, queue1, w1, partitions, feasible, explored, patterns, packs, lock,
             queue3, producer, consumers, tookFeasible, tookAbandon, posted, dequeued,
             invocation>>
\* the state of the interpreter, that a call examined alone leaves as it is
interpreterVars == <<cfg, queue1, w1, partitions, feasible, explored, patterns, packs, lock,
                     queue3, producer, consumers, tookFeasible, tookAbandon, posted, dequeued>>
\* the state of the compression and of the bias analysis
biasVars == <<compressed, queue2, w2, biased, analyzed>>

vars == <<preVars, driver, biasVars>>

\* ---------------------------------------------------------------- helpers
RECURSIVE Pow2(_)
Pow2(n) == IF n = 0 THEN 1 ELSE 2 * Pow2(n - 1)

RECURSIVE Fact(_)
Fact(n) == IF n = 0 THEN 1 ELSE n * Fact(n - 1)

RECURSIVE SeqProduct(_)
SeqProduct(s) == IF s = <<>> THEN 1 ELSE Head(s) * SeqProduct(Tail(s))

SeqRange(s) == {s[i] : i \in 1..Len(s)}

\* None of an optional value; Some(x) is the value x
NoneOpt == <<>>
Some(x) == <<x>>

\* the value 1.0 of a range bound
RangeOne == Pow2(MaxHalvings)
\* the integer that stands for 1 percent
Scale == Fact(MaxArity) * Pow2(MaxReal * MaxHalvings)
\* the literal 100 of the source
Hundred == 100 * Scale

\* ---------------------------------------------------------------- dicts
\* A Python dict is a function from its keys.  Its insertion order is not kept: where the
\* code's result depends on it (the order of equal elements in sorted()), every order is taken.
EmptyDict == [k \in {} |-> {}]
DictGet(d, k, default) == IF k \in DOMAIN d THEN d[k] ELSE default
DictSet(d, k, v) == [x \in DOMAIN d \cup {k} |-> IF x = k THEN v ELSE d[x]]

\* the sequences that hold every element of S once
RECURSIVE Perms(_)
Perms(S) == IF S = {} THEN {<<>>}
            ELSE UNION {{<<x>> \o p : p \in Perms(S \ {x})} : x \in S}

\* ---------------------------------------------------------------- one-hots
\* one_hots(variables): for a group g of the given arity, the OneHot1 values
\* <<variable, value>>: variable <<g, i>> is one and every other variable is zero.
one_hots(g, arity) ==
    {<<(<<g, i>>), [j \in 1..arity |-> IF j = i THEN 1 ELSE 0]>> : i \in 1..arity}

RECURSIVE Product(_)
Product(sets) ==
    IF sets = <<>> THEN {<<>>}
    ELSE {<<h>> \o t : h \in Head(sets), t \in Product(Tail(sets))}

\* itertools.product(*(one_hots(encoding) for encoding in self.uncontroversial1))
one_hotn(uncontroversial1) ==
    Product([g \in 1..Len(uncontroversial1) |-> one_hots(g, uncontroversial1[g])])

\* self.count
count == SeqProduct(cfg.uncontroversial1)

\* ---------------------------------------------------------------- feasibility
\* what self.precursory.analyze can return: disjoint (active, inactive) sets of activations
AnalyzeOutcomes ==
    {p \in (SUBSET activations) \X (SUBSET activations) : p[1] \cap p[2] = {}}
AnalyzeResults == [1..NumValues -> AnalyzeOutcomes]

\* disjunctions = len(self.activations) - len(active) - len(inactive)
Disjunctions(r) == NumActivations - Cardinality(r[1]) - Cardinality(r[2])

\* mutant of TooMany: widening disjunctions are already too many
TooMany_Inclusive(disjunctions) == disjunctions >= cfg.widening

\* mutant of TooMany: the threshold is off by one
TooMany_OffByOne(disjunctions) == disjunctions > cfg.widening + 1

\* if disjunctions > self.widening
TooMany(disjunctions) == disjunctions > cfg.widening

\* the loop of feasibility() from index idx on; results[idx] is what analyze returns
\* for the idx-th sensitive value
RECURSIVE FeasibilityLoop(_, _, _, _, _, _)
FeasibilityLoop(results, idx, feas, pats, disj, do) ==
    IF idx > Len(results) THEN <<feas, pats, disj>>
    ELSE LET d == Disjunctions(results[idx]) IN
         IF TooMany(d)
         THEN IF ~do THEN <<FALSE, pats, d>>
              ELSE FeasibilityLoop(results, idx + 1, FALSE, Append(pats, results[idx]), d, do)
         ELSE FeasibilityLoop(results, idx + 1, feas, Append(pats, results[idx]), d, do)

feasibility(results, do) == FeasibilityLoop(results, 1, TRUE, <<>>, NumActivations, do)

\* ---------------------------------------------------------------- tasks
Task(assumptions, pivot1, unpacked, ranges, pivot2, splittable, percent, key) ==
    [assumptions |-> assumptions, pivot1 |-> pivot1, unpacked |-> unpacked, ranges |-> ranges,
     pivot2 |-> pivot2, splittable |-> splittable, percent |-> percent, key |-> key]

\* (None, None, None, None, None, None, None, None)
Sentinel == NoneOpt
IsSentinel(item) == item = NoneOpt

NoTask == Task(<<>>, 0, {}, <<>>, 0, <<>>, 0, NoneOpt)
NoFeas == <<FALSE, <<>>, 0>>

\* the first task: (list(), 0, list(), list(ranges.items()), 0, list(self.uncontroversial2), 100, None)
InitialTask ==
    Task(<<>>, 0, {}, [f \in 1..Len(cfg.uncontroversial2) |-> <<0, RangeOne>>], 0,
         cfg.uncontroversial2, Hundred, NoneOpt)

Idle(pc) == [pc |-> pc, task |-> NoTask, feas |-> NoFeas, todo |-> <<>>, curr |-> {}]

\* ---------------------------------------------------------------- Init
RECURSIVE Power(_, _)
Power(b, n) == IF n = 0 THEN 1 ELSE b * Power(b, n - 1)

\* the number of chunks a run with parameters c ends with when nothing is feasible
Chunks(c) ==
    SeqProduct(c.uncontroversial1) * Power(RangeOne \div c.difference, Len(c.uncontroversial2))

\* no call of one_hots or from_node is examined alone
NoCall == [fn |-> "none"]

Configs ==
    {c \in [cpu : 1..MaxCpu,
            uncontroversial1 : {<<>>} \cup {<<a>> : a \in 2..MaxArity},
            uncontroversial2 : {[i \in 1..n |-> i] : n \in 0..MaxReal},
            difference : {RangeOne \div Pow2(k) : k \in 0..MaxHalvings},
            widening : (0..NumActivations) \cup {DefaultWidening}] :
        Chunks(c) <= MaxChunks}

\* the state after construction with parameters among configs, but for invocation
ConstructedWith(configs) ==
    /\ cfg \in configs
    /\ queue1 = <<Some(InitialTask)>>
    /\ w1 = (Idle("get") :> cfg.cpu)
    /\ partitions = 0
    /\ feasible = 0
    /\ explored = 0
    /\ patterns = EmptyDict
    /\ packs = EmptyDict
    /\ lock = FALSE
    /\ queue3 = <<>>
    /\ producer = [pc |-> "none", rest |-> {}]
    /\ consumers = EmptyBag
    /\ driver = "pre"
    /\ tookFeasible = EmptyBag
    /\ tookAbandon = EmptyBag
    /\ posted = 1
    /\ dequeued = 0
    /\ compressed = <<>>
    /\ queue2 = <<>>
    /\ w2 = EmptyBag
    /\ biased = 0
    /\ analyzed = 0

Constructed == ConstructedWith(Configs)

Init == Constructed /\ invocation = NoCall

\* ---------------------------------------------------------------- Worker-1
\* the bag of processes after one of them goes from state old to state new
Move(procs, old, new) == (procs (-) SetToBag({old})) (+) SetToBag({new})
SetW1(w, rec) == Move(w1, w, rec)

\* mutant of Branch: a range is exhausted only when it is narrower than difference
Branch_NarrowerOnly(t, feas) ==
    IF feas[1] THEN "partitions"
    ELSE IF t.pivot1 < Len(cfg.uncontroversial1) THEN "packing"
    ELSE IF cfg.uncontroversial2 # <<>> /\ t.splittable # <<>>
         THEN LET r == t.ranges[cfg.uncontroversial2[t.pivot2 + 1]] IN
              IF r[2] - r[1] < cfg.difference THEN "exhausted" ELSE "bisect"
         ELSE "abandon"

\* which branch of worker1 a task takes, given what feasibility returned
Branch(t, feas) ==
    IF feas[1] THEN "partitions"
    ELSE IF t.pivot1 < Len(cfg.uncontroversial1) THEN "packing"
    ELSE IF cfg.uncontroversial2 # <<>> /\ t.splittable # <<>>
         THEN LET r == t.ranges[cfg.uncontroversial2[t.pivot2 + 1]] IN
              IF r[2] - r[1] <= cfg.difference THEN "exhausted" ELSE "bisect"
         ELSE "abandon"

\* mutant of ReachedHundred: the sentinel is posted as soon as anything is explored
ReachedHundred_Early(e) == e > 0

\* if self.explored.value >= 100
ReachedHundred(e) == e >= Hundred

\* mutant of PutSentinelIf: the sentinel is put whatever explored is
PutSentinelIf_Always(cond, q) == Append(q, Sentinel)

\* queue1 after the conditional put of the sentinel
PutSentinelIf(cond, q) == IF cond THEN Append(q, Sentinel) ELSE q

\* value = (frozenset(assumptions), frozenset(unpacked), frozenset(ranges), percent)
Chunk(t) ==
    [assumptions |-> SeqRange(t.assumptions), unpacked |-> t.unpacked,
     ranges |-> {<<f, t.ranges[f]>> : f \in 1..Len(t.ranges)}, percent |-> t.percent]

\* mutant of CanAcquire: the lock excludes nobody
CanAcquire_NoExclusion == TRUE

\* lock.acquire() returns only when no process holds the lock
CanAcquire == ~lock

\* mutant of RecordChunk: the chunk replaces the chunks recorded under the key
RecordChunk_Replaces(d, key, curr, value) == DictSet(d, key, {value})

\* curr.add(value); self.patterns[_key] = curr
RecordChunk(d, key, curr, value) == DictSet(d, key, curr \cup {value})

\* self.feasible.value += percent
AddFeasible(percent) == feasible + percent

\* mutant of AddExplored: the update is lost
AddExplored_Lost(percent) == explored

\* self.explored.value += percent
AddExplored(percent) == explored + percent

\* mutant of HalfPercent: both halves keep the percent of the whole
HalfPercent_Whole(percent) == percent

\* _percent = percent / 2
HalfPercent(percent) == percent \div 2

\* _percent = percent * len(pack) / self.count
PackPercent(percent, pack) == (percent * Cardinality(pack)) \div count

\* mutant of NextPivot2: the cursor stays where it is
NextPivot2_Stay(pivot2) == pivot2

\* _pivot2 = (pivot2 + 1) % len(self.uncontroversial2)
NextPivot2(pivot2) == (pivot2 + 1) % Len(cfg.uncontroversial2)

\* score = lambda k: sum(len(s[0]) + len(s[1]) for s in k)
RECURSIVE score(_)
score(k) == IF k = <<>> THEN 0
            ELSE Cardinality(Head(k)[1]) + Cardinality(Head(k)[2]) + score(Tail(k))

PackScore(key) == score(key) + Cardinality(packs[key])

\* sorted(self.packs.items(), key=lambda v: score(v[0]) + len(v[1]), reverse=True):
\* the orders of the keys that are descending in score(key) + len(pack)
SortedPacks ==
    {s \in Perms(DOMAIN packs) :
        \A i \in 1..Len(s) : \A j \in i..Len(s) : PackScore(s[i]) >= PackScore(s[j])}

\* mutant of PackTask: the task keeps the pivot1 of its parent
PackTask_SamePivot1(t, key, pack) ==
    LET _assumptions ==
            t.assumptions \o
            [i \in 1..Len(cfg.uncontroversial1) |->
                <<{item[i][1] : item \in pack}, {item[i][2] : item \in pack}>>]
        _unpacked == {SeqRange(item) : item \in pack}
    IN Task(_assumptions, t.pivot1, _unpacked, t.ranges, t.pivot2, t.splittable,
            PackPercent(t.percent, pack), key)

\* the task worker1 posts for one pack of the 1-hot split
PackTask(t, key, pack) ==
    LET _assumptions ==
            t.assumptions \o
            [i \in 1..Len(cfg.uncontroversial1) |->
                <<{item[i][1] : item \in pack}, {item[i][2] : item \in pack}>>]
        _unpacked == {SeqRange(item) : item \in pack}
        _pivot1 == Len(cfg.uncontroversial1)
    IN Task(_assumptions, _pivot1, _unpacked, t.ranges, t.pivot2, t.splittable,
            PackPercent(t.percent, pack), key)

PackTasks(t, sorted) ==
    [i \in 1..Len(sorted) |-> PackTask(t, sorted[i], packs[sorted[i]])]

\* mutant of ExhaustedTask: the task is posted again with its splittable as it was
ExhaustedTask_SameSplittable(t) ==
    Task(t.assumptions, t.pivot1, t.unpacked, t.ranges, t.pivot2, t.splittable, t.percent, NoneOpt)

\* mutant of ExhaustedTask: the last splittable feature is removed, not the one at pivot2
ExhaustedTask_RemovesLast(t) ==
    Task(t.assumptions, t.pivot1, t.unpacked, t.ranges, NextPivot2(t.pivot2),
         SubSeq(t.splittable, 1, Len(t.splittable) - 1), t.percent, NoneOpt)

\* the task posted when the feature at pivot2 cannot be split anymore
ExhaustedTask(t) ==
    LET f == cfg.uncontroversial2[t.pivot2 + 1]
        _splittable == SelectSeq(t.splittable, LAMBDA x : x # f)
    IN Task(t.assumptions, t.pivot1, t.unpacked, t.ranges, NextPivot2(t.pivot2), _splittable,
            t.percent, NoneOpt)

\* mutant of BisectTasks: pivot2 is not advanced
BisectTasks_SamePivot2(t) ==
    LET f == cfg.uncontroversial2[t.pivot2 + 1]
        lower == t.ranges[f][1]
        upper == t.ranges[f][2]
        middle == lower + (upper - lower) \div 2
        left == [t.ranges EXCEPT ![f] = <<lower, middle>>]
        right == [t.ranges EXCEPT ![f] = <<middle, upper>>]
        _percent == HalfPercent(t.percent)
    IN << Task(t.assumptions, t.pivot1, t.unpacked, left, t.pivot2, t.splittable, _percent, NoneOpt),
          Task(t.assumptions, t.pivot1, t.unpacked, right, t.pivot2, t.splittable, _percent, NoneOpt) >>

\* the two tasks posted by a range split
BisectTasks(t) ==
    LET f == cfg.uncontroversial2[t.pivot2 + 1]
        lower == t.ranges[f][1]
        upper == t.ranges[f][2]
        middle == lower + (upper - lower) \div 2
        left == [t.ranges EXCEPT ![f] = <<lower, middle>>]
        right == [t.ranges EXCEPT ![f] = <<middle, upper>>]
        _pivot2 == NextPivot2(t.pivot2)
        _percent == HalfPercent(t.percent)
    IN << Task(t.assumptions, t.pivot1, t.unpacked, left, _pivot2, t.splittable, _percent, NoneOpt),
          Task(t.assumptions, t.pivot1, t.unpacked, right, _pivot2, t.splittable, _percent, NoneOpt) >>

\* queue1.get(block=True), then the sentinel test or the call of feasibility
worker1_get(w) ==
    /\ w.pc = "get"
    /\ queue1 # <<>>
    /\ queue1' = Tail(queue1)
    /\ IF IsSentinel(Head(queue1))
       THEN /\ w1' = SetW1(w, Idle("repost"))
            /\ UNCHANGED <<tookFeasible, tookAbandon, dequeued>>
       ELSE \E results \in AnalyzeResults :
               LET t == Head(queue1)[1]
                   feas == feasibility(results, FALSE)
                   br == Branch(t, feas)
               IN /\ w1' = SetW1(w, [pc |-> br, task |-> t, feas |-> feas, todo |-> <<>>, curr |-> {}])
                  /\ tookFeasible' = IF br = "partitions"
                                     THEN tookFeasible (+) SetToBag({Chunk(t)})
                                     ELSE tookFeasible
                  /\ tookAbandon' = IF br = "abandon"
                                    THEN tookAbandon (+) SetToBag({Chunk(t)})
                                    ELSE tookAbandon
                  /\ dequeued' = dequeued + 1
    /\ UNCHANGED <<biasVars, invocation, cfg, partitions, feasible, explored, patterns, packs, lock, queue3, producer,
                   consumers, driver, posted>>

\* queue1.put((None, ...)); break
worker1_repost(w) ==
    /\ w.pc = "repost"
    /\ queue1' = Append(queue1, Sentinel)
    /\ w1' = SetW1(w, Idle("exit"))
    /\ UNCHANGED <<biasVars, invocation, cfg, partitions, feasible, explored, patterns, packs, lock, queue3, producer,
                   consumers, driver, tookFeasible, tookAbandon, posted, dequeued>>

\* with self.partitions.get_lock(): self.partitions.value += 1
worker1_partitions(w) ==
    /\ w.pc = "partitions"
    /\ partitions' = partitions + 1
    /\ w1' = SetW1(w, [w EXCEPT !.pc = "feasible"])
    /\ UNCHANGED <<biasVars, invocation, cfg, queue1, feasible, explored, patterns, packs, lock, queue3, producer,
                   consumers, driver, tookFeasible, tookAbandon, posted, dequeued>>

\* with self.feasible.get_lock(): self.feasible.value += percent
worker1_feasible(w) ==
    /\ w.pc = "feasible"
    /\ feasible' = AddFeasible(w.task.percent)
    /\ w1' = SetW1(w, [w EXCEPT !.pc = "explored"])
    /\ UNCHANGED <<biasVars, invocation, cfg, queue1, partitions, explored, patterns, packs, lock, queue3, producer,
                   consumers, driver, tookFeasible, tookAbandon, posted, dequeued>>

\* with self.explored.get_lock(): self.explored.value += percent; sentinel if >= 100
worker1_explored(w) ==
    /\ w.pc = "explored"
    /\ explored' = AddExplored(w.task.percent)
    /\ queue1' = PutSentinelIf(ReachedHundred(explored'), queue1)
    /\ w1' = SetW1(w, [w EXCEPT !.pc = "record"])
    /\ UNCHANGED <<biasVars, invocation, cfg, partitions, feasible, patterns, packs, lock, queue3, producer,
                   consumers, driver, tookFeasible, tookAbandon, posted, dequeued>>

\* lock.acquire(); curr = self.patterns.get(_key, set())
worker1_record(w) ==
    /\ w.pc = "record"
    /\ CanAcquire
    /\ lock' = TRUE
    /\ w1' = SetW1(w, [w EXCEPT !.pc = "store", !.curr = DictGet(patterns, w.feas[2], {})])
    /\ UNCHANGED <<biasVars, invocation, cfg, queue1, partitions, feasible, explored, patterns, packs,
                   queue3, producer, consumers, driver, tookFeasible, tookAbandon, posted,
                   dequeued>>

\* curr.add(value); self.patterns[_key] = curr; lock.release()
worker1_store(w) ==
    /\ w.pc = "store"
    /\ patterns' = RecordChunk(patterns, w.feas[2], w.curr, Chunk(w.task))
    /\ lock' = FALSE
    /\ w1' = SetW1(w, Idle("get"))
    /\ UNCHANGED <<biasVars, invocation, cfg, queue1, partitions, feasible, explored, packs,
                   queue3, producer, consumers, driver, tookFeasible, tookAbandon, posted,
                   dequeued>>

\* the last else: the chunk is abandoned
worker1_abandon(w) ==
    /\ w.pc = "abandon"
    /\ explored' = AddExplored(w.task.percent)
    /\ queue1' = PutSentinelIf(ReachedHundred(explored'), queue1)
    /\ w1' = SetW1(w, Idle("get"))
    /\ UNCHANGED <<biasVars, invocation, cfg, partitions, feasible, patterns, packs, lock, queue3, producer,
                   consumers, driver, tookFeasible, tookAbandon, posted, dequeued>>

\* upper - lower <= self.difference: _splittable.remove(...) raises ValueError if the
\* feature is not in splittable; otherwise one task is posted
worker1_exhausted(w) ==
    /\ w.pc = "exhausted"
    /\ LET t == w.task IN
       IF cfg.uncontroversial2[t.pivot2 + 1] \in SeqRange(t.splittable)
       THEN /\ queue1' = Append(queue1, Some(ExhaustedTask(t)))
            /\ posted' = posted + 1
            /\ w1' = SetW1(w, Idle("get"))
       ELSE /\ w1' = SetW1(w, [w EXCEPT !.pc = "crashed"])
            /\ UNCHANGED <<queue1, posted>>
    /\ UNCHANGED <<biasVars, invocation, cfg, partitions, feasible, explored, patterns, packs, lock, queue3, producer,
                   consumers, driver, tookFeasible, tookAbandon, dequeued>>

\* the range split: the first put; the second one is left in todo
worker1_bisect(w) ==
    /\ w.pc = "bisect"
    /\ LET both == BisectTasks(w.task) IN
       /\ queue1' = Append(queue1, Some(both[1]))
       /\ w1' = SetW1(w, [w EXCEPT !.pc = "post", !.todo = <<both[2]>>])
    /\ posted' = posted + 1
    /\ UNCHANGED <<biasVars, invocation, cfg, partitions, feasible, explored, patterns, packs, lock, queue3, producer,
                   consumers, driver, tookFeasible, tookAbandon, dequeued>>

\* one queue1.put of a loop of puts
worker1_post(w) ==
    /\ w.pc = "post"
    /\ w.todo # <<>>
    /\ queue1' = Append(queue1, Some(Head(w.todo)))
    /\ posted' = posted + 1
    /\ w1' = IF Tail(w.todo) = <<>> THEN SetW1(w, Idle("get"))
             ELSE SetW1(w, [w EXCEPT !.todo = Tail(w.todo)])
    /\ UNCHANGED <<biasVars, invocation, cfg, partitions, feasible, explored, patterns, packs, lock, queue3, producer,
                   consumers, driver, tookFeasible, tookAbandon, dequeued>>

\* ---------------------------------------------------------------- packing
\* for _ in range(cpu_count() - 1): one consumer each
NumConsumers == cfg.cpu - 1
ConsumerIdle(pc) == [pc |-> pc, one_hot |-> <<>>, key |-> <<>>, curr |-> {}]

\* self.packing(entry): the queue and the processes are created and started
worker1_packing(w) ==
    /\ w.pc = "packing"
    /\ queue3' = <<>>
    /\ producer' = [pc |-> "run", rest |-> one_hotn(cfg.uncontroversial1)]
    /\ consumers' = IF NumConsumers > 0 THEN (ConsumerIdle("get") :> NumConsumers) ELSE EmptyBag
    /\ w1' = SetW1(w, [w EXCEPT !.pc = "join3"])
    /\ UNCHANGED <<biasVars, invocation, cfg, queue1, partitions, feasible, explored, patterns, packs, lock, driver,
                   tookFeasible, tookAbandon, posted, dequeued>>

\* for one_hot in one_hotn: queue3.put(one_hot)
producer_put ==
    /\ producer.pc = "run"
    /\ \E one_hot \in producer.rest :
          /\ queue3' = Append(queue3, Some(one_hot))
          /\ producer' = [producer EXCEPT !.rest = @ \ {one_hot}]
    /\ UNCHANGED <<biasVars, invocation, cfg, queue1, w1, partitions, feasible, explored, patterns, packs, lock,
                   consumers, driver, tookFeasible, tookAbandon, posted, dequeued>>

\* queue3.put(None)
producer_done ==
    /\ producer.pc = "run"
    /\ producer.rest = {}
    /\ queue3' = Append(queue3, NoneOpt)
    /\ producer' = [producer EXCEPT !.pc = "exit"]
    /\ UNCHANGED <<biasVars, invocation, cfg, queue1, w1, partitions, feasible, explored, patterns, packs, lock,
                   consumers, driver, tookFeasible, tookAbandon, posted, dequeued>>

\* one_hot = queue3.get(block=True), then the key of the combination
consumer_get(c) ==
    /\ c.pc = "get"
    /\ queue3 # <<>>
    /\ queue3' = Tail(queue3)
    /\ IF Head(queue3) = NoneOpt
       THEN consumers' = Move(consumers, c, ConsumerIdle("repost"))
       ELSE \E key \in AnalyzeResults :
               consumers' = Move(consumers, c,
                                 [pc |-> "add", one_hot |-> Head(queue3)[1], key |-> key,
                                  curr |-> {}])
    /\ UNCHANGED <<biasVars, invocation, cfg, queue1, w1, partitions, feasible, explored, patterns, packs, lock,
                   producer, driver, tookFeasible, tookAbandon, posted, dequeued>>

\* queue3.put(None); break
consumer_repost(c) ==
    /\ c.pc = "repost"
    /\ queue3' = Append(queue3, NoneOpt)
    /\ consumers' = Move(consumers, c, ConsumerIdle("exit"))
    /\ UNCHANGED <<biasVars, invocation, cfg, queue1, w1, partitions, feasible, explored, patterns, packs, lock,
                   producer, driver, tookFeasible, tookAbandon, posted, dequeued>>

\* curr.add(one_hot); self.packs[_key] = curr
AddPack(d, key, curr, one_hot) == DictSet(d, key, curr \cup {one_hot})

\* lock.acquire(); curr = self.packs.get(_key, set())
consumer_add(c) ==
    /\ c.pc = "add"
    /\ CanAcquire
    /\ lock' = TRUE
    /\ consumers' = Move(consumers, c, [c EXCEPT !.pc = "store", !.curr = DictGet(packs, c.key, {})])
    /\ UNCHANGED <<biasVars, invocation, cfg, queue1, w1, partitions, feasible, explored, patterns, packs,
                   queue3, producer, driver, tookFeasible, tookAbandon, posted, dequeued>>

\* curr.add(one_hot); self.packs[_key] = curr; lock.release()
consumer_store(c) ==
    /\ c.pc = "store"
    /\ packs' = AddPack(packs, c.key, c.curr, c.one_hot)
    /\ lock' = FALSE
    /\ consumers' = Move(consumers, c, ConsumerIdle("get"))
    /\ UNCHANGED <<biasVars, invocation, cfg, queue1, w1, partitions, feasible, explored, patterns,
                   queue3, producer, driver, tookFeasible, tookAbandon, posted, dequeued>>

\* _count = sum(len(pack) for pack in self.packs.values())
RECURSIVE PacksCount(_)
PacksCount(d) ==
    IF DOMAIN d = {} THEN 0
    ELSE LET k == CHOOSE x \in DOMAIN d : TRUE IN
         Cardinality(d[k]) + PacksCount([x \in DOMAIN d \ {k} |-> d[x]])

PackingJoined ==
    /\ producer.pc = "exit"
    /\ \A c \in DOMAIN consumers : c.pc = "exit"

\* for process in processes: process.join(); assert self.count == _count; then the
\* ranked packs are what the loop of puts will post
worker1_join3(w) ==
    /\ w.pc = "join3"
    /\ PackingJoined
    /\ IF count = PacksCount(packs)
       THEN \E sorted \in SortedPacks :
               w1' = SetW1(w, [w EXCEPT !.pc = "post", !.todo = PackTasks(w.task, sorted)])
       ELSE w1' = SetW1(w, [w EXCEPT !.pc = "crashed"])
    /\ UNCHANGED <<biasVars, invocation, cfg, queue1, partitions, feasible, explored, patterns, packs, lock, queue3,
                   producer, consumers, driver, tookFeasible, tookAbandon, posted, dequeued>>

\* ---------------------------------------------------------------- driver
Worker1Gone(w) == w.pc \in {"exit", "crashed"}

\* for process in processes: process.join()  (the pre-analysis)
driver_join1 ==
    /\ driver = "pre"
    /\ \A w \in DOMAIN w1 : Worker1Gone(w)
    /\ driver' = "compress"
    /\ UNCHANGED <<biasVars, invocation, cfg, queue1, w1, partitions, feasible, explored, patterns, packs, lock, queue3,
                   producer, consumers, tookFeasible, tookAbandon, posted, dequeued>>

\* ---------------------------------------------------------------- compression
\* the keys of the patterns dict in an order that sorted(..., key=lambda v: len(v[1]),
\* reverse=False) can give
SortedPatterns ==
    {s \in Perms(DOMAIN patterns) :
        \A i \in 1..Len(s) : \A j \in i..Len(s) :
            Cardinality(patterns[s[i]]) <= Cardinality(patterns[s[j]])}

\* mutant of Mergeable1: key1 is never merged into an entry
Mergeable1_Never(key1, key2) == FALSE

\* mergeable1: every set of key2 is a subset of the set of key1 at the same position
Mergeable1(key1, key2) ==
    \A i \in 1..Len(key1) : key2[i][1] \subseteq key1[i][1] /\ key2[i][2] \subseteq key1[i][2]

\* mutant of Mergeable2: any entry is taken to be replaceable by key1
Mergeable2_Always(key1, key2) == TRUE

\* mergeable2: every set of key1 is a subset of the set of key2 at the same position
Mergeable2(key1, key2) ==
    \A i \in 1..Len(key1) : key1[i][1] \subseteq key2[i][1] /\ key1[i][2] \subseteq key2[i][2]

\* mutant of RemoveAt: the entry is not deleted
RemoveAt_Keeps(comp, i) == comp

\* del compressed[key2] for the entry at index i
RemoveAt(comp, i) == SubSeq(comp, 1, i - 1) \o SubSeq(comp, i + 1, Len(comp))

\* the body of the loop over the patterns: the entry <<key1, pack1>> is merged into the
\* first entry of compressed it is mergeable with, or added
CompressOne(comp, key1, pack1) ==
    LET hits == {i \in 1..Len(comp) :
                    Mergeable1(key1, comp[i][1]) \/ Mergeable2(key1, comp[i][1])}
    IN IF hits = {} THEN Append(comp, <<key1, pack1>>)
       ELSE LET i == CHOOSE h \in hits : \A g \in hits : h <= g
                key2 == comp[i][1]
            IN IF Mergeable1(key1, key2)
               THEN [comp EXCEPT ![i] = <<key2, comp[i][2] \cup pack1>>]
               ELSE Append(RemoveAt(comp, i), <<key1, comp[i][2] \cup pack1>>)

RECURSIVE CompressLoop(_, _)
CompressLoop(sorted, comp) ==
    IF sorted = <<>> THEN comp
    ELSE CompressLoop(Tail(sorted), CompressOne(comp, Head(sorted), patterns[Head(sorted)]))

\* sorted(compressed.items(), key=lambda v: len(v[1]), reverse=True): the sort is stable
RECURSIVE SortedByLenFrom(_, _)
SortedByLenFrom(comp, len) ==
    IF len = 0 THEN <<>>
    ELSE SelectSeq(comp, LAMBDA e : Cardinality(e[2]) = len) \o SortedByLenFrom(comp, len - 1)

prioritized ==
    SortedByLenFrom(compressed,
                    Cardinality(UNION {compressed[i][2] : i \in 1..Len(compressed)}))

\* compressed = dict(); for key1, pack1 in sorted(self.patterns.items(), ...)
driver_compress ==
    /\ driver = "compress"
    /\ \E sorted \in SortedPatterns : compressed' = CompressLoop(sorted, <<>>)
    /\ driver' = "load"
    /\ UNCHANGED <<preVars, queue2, w2, biased, analyzed>>

\* ---------------------------------------------------------------- Worker-2
\* (None, (None, None))
Sentinel2 == NoneOpt
Idle2(pc) == [pc |-> pc, calls |-> EmptyBag, size |-> 0]

\* for idx, (key, pack) in enumerate(prioritized): queue2.put((idx+1, (key, pack)))
Queue2Items ==
    [i \in 1..Len(prioritized) |->
        Some([idx |-> i, key |-> prioritized[i][1], pack |-> prioritized[i][2]])]

\* mutant of LoadedQueue2: the sentinel is put before the patterns
LoadedQueue2_SentinelFirst == <<Sentinel2>> \o Queue2Items

\* queue2 after the puts of the patterns and the put of the sentinel
LoadedQueue2 == Queue2Items \o <<Sentinel2>>

\* queue2 is loaded with the prioritized patterns and the sentinel; the Worker-2
\* processes are started
driver_load ==
    /\ driver = "load"
    /\ queue2' = LoadedQueue2
    /\ w2' = (Idle2("get") :> cfg.cpu)
    /\ driver' = "bias"
    /\ UNCHANGED <<preVars, compressed, biased, analyzed>>

\* mutant of UnpackedPercent: every one-hot combination is given the percent of the chunk
UnpackedPercent_Whole(percent, unpacked) == percent

\* _percent = percent / len(unpacked)
UnpackedPercent(percent, unpacked) == percent \div Cardinality(unpacked)

\* the calls of bias_check worker2 makes for one chunk: one per one-hot combination
\* of unpacked, or one for the chunk
ChunkCalls(chunk) ==
    IF chunk.unpacked # {}
    THEN [ranges |-> chunk.ranges, percent |-> UnpackedPercent(chunk.percent, chunk.unpacked)]
            :> Cardinality(chunk.unpacked)
    ELSE [ranges |-> chunk.ranges, percent |-> chunk.percent] :> 1

\* the calls of bias_check worker2 makes for a pack
RECURSIVE PackCalls(_)
PackCalls(pack) ==
    IF pack = {} THEN EmptyBag
    ELSE LET chunk == CHOOSE c \in pack : TRUE IN ChunkCalls(chunk) (+) PackCalls(pack \ {chunk})

\* total_size *= upper - lower, over the ranges of the chunk
RECURSIVE total_size(_)
total_size(ranges) ==
    IF ranges = {} THEN 1
    ELSE LET r == CHOOSE x \in ranges : TRUE IN (r[2][2] - r[2][1]) * total_size(ranges \ {r})

\* biased_size *= upper - lower, over b_ranges
RECURSIVE biased_size(_)
biased_size(b_ranges) ==
    IF DOMAIN b_ranges = {} THEN 1
    ELSE LET f == CHOOSE x \in DOMAIN b_ranges : TRUE IN
         (b_ranges[f][2] - b_ranges[f][1])
            * biased_size([x \in DOMAIN b_ranges \ {f} |-> b_ranges[x]])

\* what b_ranges can be when a bias is found: for every custom encoded feature the
\* hull of the bounds of the witnesses, which were all cut to the ranges of the chunk
BRanges(ranges) ==
    {b \in [{r[1] : r \in ranges} -> (0..RangeOne) \X (0..RangeOne)] :
        \A r \in ranges : r[2][1] <= b[r[1]][1] /\ b[r[1]][1] <= b[r[1]][2]
                          /\ b[r[1]][2] <= r[2][2]}

\* _percent = percent * biased_size / total_size
BiasPercent(percent, b_ranges, ranges) ==
    (percent * biased_size(b_ranges)) \div total_size(ranges)

\* idx, (key, pack) = queue2.get(block=True), then the sentinel test or the backward
\* analysis of the pattern
worker2_get(w) ==
    /\ w.pc = "get"
    /\ queue2 # <<>>
    /\ queue2' = Tail(queue2)
    /\ IF Head(queue2) = Sentinel2
       THEN w2' = Move(w2, w, Idle2("repost"))
       ELSE LET pack == Head(queue2)[1].pack IN
            w2' = Move(w2, w, [pc |-> "check", calls |-> PackCalls(pack),
                               size |-> Cardinality(pack)])
    /\ UNCHANGED <<preVars, driver, compressed, biased, analyzed>>

\* queue2.put((None, (None, None))); break
worker2_repost(w) ==
    /\ w.pc = "repost"
    /\ queue2' = Append(queue2, Sentinel2)
    /\ w2' = Move(w2, w, Idle2("exit"))
    /\ UNCHANGED <<preVars, driver, compressed, biased, analyzed>>

\* one call of bias_check: no bias is found, or self.biased.value += _percent
worker2_check(w) ==
    /\ w.pc = "check"
    /\ \E call \in DOMAIN w.calls :
          /\ \/ UNCHANGED biased
             \/ \E b_ranges \in BRanges(call.ranges) :
                   biased' = biased + BiasPercent(call.percent, b_ranges, call.ranges)
          /\ LET rest == w.calls (-) SetToBag({call}) IN
             w2' = Move(w2, w, IF rest = EmptyBag THEN [w EXCEPT !.pc = "analyzed", !.calls = rest]
                               ELSE [w EXCEPT !.calls = rest])
    /\ UNCHANGED <<preVars, driver, compressed, queue2, analyzed>>

\* with self.analyzed.get_lock(): self.analyzed.value += len(pack)
worker2_analyzed(w) ==
    /\ w.pc = "analyzed"
    /\ analyzed' = analyzed + w.size
    /\ w2' = Move(w2, w, Idle2("get"))
    /\ UNCHANGED <<preVars, driver, compressed, queue2, biased>>

\* for process in processes: process.join()  (the analysis)
driver_join2 ==
    /\ driver = "bias"
    /\ \A w \in DOMAIN w2 : w.pc = "exit"
    /\ driver' = "done"
    /\ UNCHANGED <<preVars, biasVars>>

Next ==
    \/ \E w \in DOMAIN w1 : worker1_get(w)
    \/ \E w \in DOMAIN w1 : worker1_repost(w)
    \/ \E w \in DOMAIN w1 : worker1_partitions(w)
    \/ \E w \in DOMAIN w1 : worker1_feasible(w)
    \/ \E w \in DOMAIN w1 : worker1_explored(w)
    \/ \E w \in DOMAIN w1 : worker1_record(w)
    \/ \E w \in DOMAIN w1 : worker1_store(w)
    \/ \E w \in DOMAIN w1 : worker1_abandon(w)
    \/ \E w \in DOMAIN w1 : worker1_exhausted(w)
    \/ \E w \in DOMAIN w1 : worker1_bisect(w)
    \/ \E w \in DOMAIN w1 : worker1_post(w)
    \/ \E w \in DOMAIN w1 : worker1_packing(w)
    \/ \E w \in DOMAIN w1 : worker1_join3(w)
    \/ producer_put
    \/ producer_done
    \/ \E c \in DOMAIN consumers : consumer_get(c)
    \/ \E c \in DOMAIN consumers : consumer_repost(c)
    \/ \E c \in DOMAIN consumers : consumer_add(c)
    \/ \E c \in DOMAIN consumers : consumer_store(c)
    \/ driver_join1
    \/ driver_compress
    \/ driver_load
    \/ \E w \in DOMAIN w2 : worker2_get(w)
    \/ \E w \in DOMAIN w2 : worker2_repost(w)
    \/ \E w \in DOMAIN w2 : worker2_check(w)
    \/ \E w \in DOMAIN w2 : worker2_analyzed(w)
    \/ driver_join2

Spec == Init /\ [][Next]_vars

\* the code's scheduling: a process that can take a step eventually takes one
FairSpec == Spec /\ WF_vars(Next)

\* ---------------------------------------------------------------- derived values
RECURSIVE BagPercent(_)
\* the sum of percent over a bag of chunks
BagPercent(b) ==
    IF DOMAIN b = {} THEN 0
    ELSE LET x == CHOOSE y \in DOMAIN b : TRUE IN
         x.percent * b[x] + BagPercent([y \in DOMAIN b \ {x} |-> b[y]])

RECURSIVE SetPercent(_)
\* the sum of percent over a set of chunks
SetPercent(S) ==
    IF S = {} THEN 0
    ELSE LET x == CHOOSE y \in S : TRUE IN x.percent + SetPercent(S \ {x})

RECURSIVE DictPercent(_)
\* the sum of percent over all chunks of a patterns dict
DictPercent(d) ==
    IF DOMAIN d = {} THEN 0
    ELSE LET k == CHOOSE x \in DOMAIN d : TRUE IN
         SetPercent(d[k]) + DictPercent([x \in DOMAIN d \ {k} |-> d[x]])

AllWorker1Gone == \A w \in DOMAIN w1 : Worker1Gone(w)
SomeWorker1Crashed == \E w \in DOMAIN w1 : w.pc = "crashed"
SentinelOnQ1 == \E i \in 1..Len(queue1) : IsSentinel(queue1[i])
TasksOnQ1 == Cardinality({i \in 1..Len(queue1) : ~IsSentinel(queue1[i])})

\* ---------------------------------------------------------------- the compression alone
\* The loop of the compression is a function of the patterns dict.  It is applied here
\* to the patterns dicts a run can end with for a network with two activation nodes,
\* one one-hot group of arity 2 and one custom encoded feature, with widening 1: the
\* initial task is infeasible, the two combinations go to two packs, the task of each
\* pack is split in two halves, and each half is feasible or abandoned.
CompressNodes == {"relu1", "relu2"}

\* the (active, inactive) results of analyze that are taken for a recorded key: each
\* leaves at most one of the two nodes undetermined
CompressOutcomes ==
    {<<{"relu1"}, {}>>, <<{"relu2"}, {}>>, <<{"relu1", "relu2"}, {}>>, <<{"relu1"}, {"relu2"}>>}

\* the recorded keys: any of these results for the first sensitive value, and for the
\* other values one that has relu1 active
CompressKeys ==
    {k \in [1..NumValues -> CompressOutcomes] :
        \A v \in 2..NumValues : k[v][1] \in {{"relu1"}, {"relu1", "relu2"}} /\ k[v][2] = {}}

CompressConfig ==
    [cpu |-> 2, uncontroversial1 |-> <<2>>, uncontroversial2 |-> <<1>>,
     difference |-> RangeOne \div 2, widening |-> 1]

\* the keys the consumers found for the two combinations
CompressPackKey(i) == [v \in 1..NumValues |-> <<{"relu1"}, IF i = 1 THEN {} ELSE {"relu2"}>>]

\* the tasks of the two packs, in the order they are posted
CompressPackTasks == PackTasks(InitialTask, CHOOSE sorted \in SortedPacks : TRUE)

\* the chunks the run ends with: the two halves of each pack
CompressLeaves ==
    {Chunk(BisectTasks(CompressPackTasks[p])[i]) : p \in 1..2, i \in 1..2}

\* the patterns dict that records every chunk c of the domain of keyOf under keyOf[c]
PatternsOf(keyOf) ==
    [k \in {keyOf[c] : c \in DOMAIN keyOf} |-> {c \in DOMAIN keyOf : keyOf[c] = k}]

\* the state in which analyze() starts the compression, with recorded keys among keys
InitAtCompression(keys) ==
    /\ cfg = CompressConfig
    /\ packs = [k \in {CompressPackKey(i) : i \in 1..2} |->
                   {item \in one_hotn(cfg.uncontroversial1) :
                       k = CompressPackKey(item[1][1][2])}]
    /\ \E recorded \in SUBSET CompressLeaves :
          /\ partitions = Cardinality(recorded)
          /\ feasible = SetPercent(recorded)
          /\ tookFeasible = SetToBag(recorded)
          /\ tookAbandon = SetToBag(CompressLeaves \ recorded)
          /\ \E keyOf \in [recorded -> keys] : patterns = PatternsOf(keyOf)
    /\ explored = Hundred
    /\ queue1 = <<Sentinel>>
    /\ w1 = (Idle("exit") :> cfg.cpu)
    /\ lock = FALSE
    /\ queue3 = <<NoneOpt>>
    /\ producer = [pc |-> "exit", rest |-> {}]
    /\ consumers = (ConsumerIdle("exit") :> NumConsumers)
    /\ driver = "compress"
    /\ posted = 7
    /\ dequeued = 7
    /\ compressed = <<>>
    /\ queue2 = <<>>
    /\ w2 = EmptyBag
    /\ biased = 0
    /\ analyzed = 0
    /\ invocation = NoCall

InitCompress == InitAtCompression(CompressKeys)

NextCompress == driver_compress

SpecCompress == InitCompress /\ [][NextCompress]_vars

\* ---------------------------------------------------------------- the analysis alone
\* the compression and the bias analysis of the patterns dicts with these recorded keys:
\* one that subsumes the two others, which are not comparable
BiasKeys ==
    {k \in CompressKeys :
        /\ k[1] \in {<<{"relu1"}, {}>>, <<{"relu1", "relu2"}, {}>>, <<{"relu1"}, {"relu2"}>>}
        /\ \A v \in 2..NumValues : k[v] = <<{"relu1"}, {}>>}

InitBias == InitAtCompression(BiasKeys)

NextBias ==
    \/ driver_compress
    \/ driver_load
    \/ \E w \in DOMAIN w2 : worker2_get(w)
    \/ \E w \in DOMAIN w2 : worker2_repost(w)
    \/ \E w \in DOMAIN w2 : worker2_check(w)
    \/ \E w \in DOMAIN w2 : worker2_analyzed(w)
    \/ driver_join2

SpecBias == InitBias /\ [][NextBias]_vars

\* the code's scheduling: a process that can take a step eventually takes one
FairSpecBias == SpecBias /\ WF_vars(NextBias)

\* ---------------------------------------------------------------- the range splitting alone
\* the pre-analysis, by one Worker-1 process, of a network without one-hot encoded
\* uncontroversial features and with two custom encoded ones, each of which can be
\* bisected once
SplitConfigs ==
    [cpu : {1}, uncontroversial1 : {<<>>}, uncontroversial2 : {<<1, 2>>},
     difference : {RangeOne \div 2}, widening : {0}]

InitSplit == ConstructedWith(SplitConfigs) /\ invocation = NoCall

NextSplit ==
    \/ \E w \in DOMAIN w1 : worker1_get(w)
    \/ \E w \in DOMAIN w1 : worker1_repost(w)
    \/ \E w \in DOMAIN w1 : worker1_partitions(w)
    \/ \E w \in DOMAIN w1 : worker1_feasible(w)
    \/ \E w \in DOMAIN w1 : worker1_explored(w)
    \/ \E w \in DOMAIN w1 : worker1_record(w)
    \/ \E w \in DOMAIN w1 : worker1_store(w)
    \/ \E w \in DOMAIN w1 : worker1_abandon(w)
    \/ \E w \in DOMAIN w1 : worker1_exhausted(w)
    \/ \E w \in DOMAIN w1 : worker1_bisect(w)
    \/ \E w \in DOMAIN w1 : worker1_post(w)
    \/ driver_join1

SpecSplit == InitSplit /\ [][NextSplit]_vars

\* the code's scheduling: a process that can take a step eventually takes one
FairSpecSplit == SpecSplit /\ WF_vars(NextSplit)

\* ---------------------------------------------------------------- one_hots alone
\* the expressions one_hots builds: identifiers, literals, comparisons and conjunctions
VariableIdentifier(name) == [name |-> name]
Literal(val) == [val |-> val]
LtE(left, right) == [left |-> left, operator |-> "LtE", right |-> right]
And(left, right) == [left |-> left, operator |-> "And", right |-> right]

\* the variable has value one: 1 <= variable and variable <= 1
IsOne(variable) == And(LtE(Literal("1"), variable), LtE(variable, Literal("1")))
\* the variable has value zero: 0 <= variable and variable <= 0
IsZero(variable) == And(LtE(Literal("0"), variable), LtE(variable, Literal("0")))

\* for j in range(0, i): value = conj And value    (positions count from 1 here)
RECURSIVE ZerosBefore(_, _, _, _)
ZerosBefore(variables, j, i, value) ==
    IF j >= i THEN value
    ELSE ZerosBefore(variables, j + 1, i, And(IsZero(variables[j]), value))

\* for j in range(i + 1, arity): value = value And conj
RECURSIVE ZerosAfter(_, _, _)
ZerosAfter(variables, j, value) ==
    IF j > Len(variables) THEN value
    ELSE ZerosAfter(variables, j + 1, And(value, IsZero(variables[j])))

\* the value built by the i-th iteration, without the loop over the earlier variables
one_hot_NoZerosBefore(variables, i) == ZerosAfter(variables, i + 1, IsOne(variables[i]))

\* the value built by the i-th iteration of one_hots
one_hot(variables, i) ==
    ZerosAfter(variables, i + 1, ZerosBefore(variables, 1, i, IsOne(variables[i])))

\* one_hots(variables), as the set of (variable, expression) it returns
one_hots_expressions(variables) ==
    {<<variables[i], one_hot(variables, i)>> : i \in 1..Len(variables)}

\* the input variables, and the lists of distinct ones that encode a feature
InputVariables == {VariableIdentifier(name) : name \in {"x00", "x01", "x02", "x03"}}
VariableLists ==
    UNION {Perms(S) : S \in {T \in SUBSET InputVariables : Cardinality(T) <= MaxVariables}}

\* reals are counted in units of 1/RangeOne; the points examined have coordinates
\* from -1/RangeOne to 1 + 1/RangeOne
Coordinates == (0 - 1)..(RangeOne + 1)
Points(variables) == [{variables[i] : i \in 1..Len(variables)} -> Coordinates]

\* the value of an operand and the truth of an expression at a point
ValueAt(point, operand) ==
    IF "val" \in DOMAIN operand
    THEN (IF operand.val = "1" THEN RangeOne ELSE 0)
    ELSE point[operand]

RECURSIVE Satisfies(_, _)
Satisfies(point, expr) ==
    IF expr.operator = "And"
    THEN Satisfies(point, expr.left) /\ Satisfies(point, expr.right)
    ELSE ValueAt(point, expr.left) <= ValueAt(point, expr.right)

RECURSIVE SumAt(_, _)
SumAt(point, S) ==
    IF S = {} THEN 0
    ELSE LET x == CHOOSE y \in S : TRUE IN point[x] + SumAt(point, S \ {x})

\* a call of one_hots on a list of variables, before it runs
InitOneHots ==
    /\ Constructed
    /\ \E variables \in VariableLists :
          invocation = [fn |-> "one_hots", pc |-> "called",
                        variables |-> variables, values |-> {}]

\* def one_hots(variables): ... return values
one_hots_call ==
    /\ invocation.fn = "one_hots"
    /\ invocation.pc = "called"
    /\ invocation' = [invocation EXCEPT !.pc = "returned",
                                        !.values = one_hots_expressions(invocation.variables)]
    /\ UNCHANGED <<interpreterVars, driver, biasVars>>

NextOneHots == one_hots_call

SpecOneHots == InitOneHots /\ [][NextOneHots]_vars

\* ---------------------------------------------------------------- from_node alone
\* The CFG is a chain: node 1 has no predecessor, the predecessor of node n is n - 1 and
\* the analysis starts at the last node.  A node is a Function, an Activation or another
\* node (Basic); the first node is not an Activation, which always has a predecessor.
NodeKinds == {"Function", "Activation", "Basic"}
Chains ==
    UNION {{chain \in [1..n -> NodeKinds] : chain[1] # "Activation"} : n \in 1..MaxNodes}
ActivationNodes(chain) == {n \in 1..Len(chain) : chain[n] = "Activation"}

\* an analysis state: whether it is bottom, and the ReLU branches it went through
InitialState == [bottom |-> FALSE, path |-> <<>>]
\* the result yielded for a bottom state
None == [bottom |-> TRUE, path |-> <<>>]

\* self.semantics.list_semantics(node.stmts, state): some state, bottom or not
list_semantics(state, bottom) == [state EXCEPT !.bottom = bottom]
\* self.semantics.ReLU_call_semantics(node.stmts, state, self.manager, active)
ReLU_call_semantics(state, node, branch, bottom) ==
    [bottom |-> bottom, path |-> Append(state.path, <<node, branch>>)]
\* state1.join(state2)
Join(state, node, state1, state2) ==
    [bottom |-> state1.bottom /\ state2.bottom, path |-> Append(state.path, <<node, "join">>)]

\* the frame of a call of from_node(node, state, join) that has not run yet, and the
\* frame of a call that waits at l.432 with state2 for its first recursion to end
Called(node, state) == [node |-> node, pc |-> "start", state |-> state]
Waiting(node, state2) == [node |-> node, pc |-> "second", state |-> state2]

\* a call of from_node at the last node of a chain, before it runs
InitFromNode ==
    /\ Constructed
    /\ cfg.cpu = 1 /\ cfg.widening = DefaultWidening /\ cfg.difference = RangeOne
    /\ cfg.uncontroversial1 = <<>> /\ cfg.uncontroversial2 = <<>>
    /\ \E chain \in Chains :
       \E active \in SUBSET ActivationNodes(chain) :
       \E inactive \in SUBSET (ActivationNodes(chain) \ active) :
       \E join \in BOOLEAN :
          invocation = [fn |-> "from_node", chain |-> chain, active |-> active,
                        inactive |-> inactive, join |-> join,
                        stack |-> <<Called(Len(chain), InitialState)>>,
                        yielded |-> <<>>]

\* the frame that runs
Top == Head(invocation.stack)
Running(pc, kind) ==
    /\ invocation.fn = "from_node"
    /\ invocation.stack # <<>>
    /\ Top.pc = pc
    /\ invocation.chain[Top.node] = kind

\* yield result, after which the running call ends
Yield(result) ==
    invocation' = [invocation EXCEPT !.stack = Tail(@), !.yielded = Append(@, result)]
\* yield from self.from_node(predecessor, state, join), after which the running call ends
YieldFrom(node, state) ==
    invocation' = [invocation EXCEPT !.stack = <<Called(node, state)>> \o Tail(@)]
\* if self.cfg.predecessors(node): yield from self.from_node(...) else: yield state
YieldFromPredecessor(node, state) ==
    IF node > 1 THEN YieldFrom(node - 1, state) ELSE Yield(state)

\* the else of l.414, taken also by the nodes of self.inactive
Disjunctive_IgnoringInactive(node) == node \notin invocation.active

\* the else of l.414: the node is neither in self.active nor in self.inactive
Disjunctive(node) == node \notin invocation.active /\ node \notin invocation.inactive

\* l.390-398: a Function node
from_node_function ==
    /\ Running("start", "Function")
    /\ \E bottom \in BOOLEAN :
          LET state == list_semantics(Top.state, bottom) IN
          IF state.bottom THEN Yield(None) ELSE YieldFromPredecessor(Top.node, state)
    /\ UNCHANGED <<interpreterVars, driver, biasVars>>

\* l.400-406: an Activation node of self.active
from_node_active ==
    /\ Running("start", "Activation")
    /\ Top.node \in invocation.active
    /\ \E bottom \in BOOLEAN :
          LET state == ReLU_call_semantics(Top.state, Top.node, "active", bottom) IN
          IF state.bottom THEN Yield(None) ELSE YieldFrom(Top.node - 1, state)
    /\ UNCHANGED <<interpreterVars, driver, biasVars>>

\* l.407-413: an Activation node of self.inactive
from_node_inactive ==
    /\ Running("start", "Activation")
    /\ Top.node \notin invocation.active
    /\ Top.node \in invocation.inactive
    /\ \E bottom \in BOOLEAN :
          LET state == ReLU_call_semantics(Top.state, Top.node, "inactive", bottom) IN
          IF state.bottom THEN Yield(None) ELSE YieldFrom(Top.node - 1, state)
    /\ UNCHANGED <<interpreterVars, driver, biasVars>>

\* l.414-431: an Activation node of neither, up to the end of the first recursion
from_node_both ==
    /\ Running("start", "Activation")
    /\ Disjunctive(Top.node)
    /\ \E bottom1 \in BOOLEAN : \E bottom2 \in BOOLEAN :
          LET state1 == ReLU_call_semantics(Top.state, Top.node, "active", bottom1)
              state2 == ReLU_call_semantics(Top.state, Top.node, "inactive", bottom2)
          IN  IF invocation.join
              THEN YieldFrom(Top.node - 1, Join(Top.state, Top.node, state1, state2))
              ELSE IF state1.bottom
                   THEN (IF state2.bottom THEN Yield(None)
                         ELSE YieldFrom(Top.node - 1, state2))
                   ELSE invocation' =
                           [invocation EXCEPT
                               !.stack = <<Called(Top.node - 1, state1),
                                           Waiting(Top.node, state2)>> \o Tail(@)]
    /\ UNCHANGED <<interpreterVars, driver, biasVars>>

\* l.432-435: after the first recursion
from_node_second ==
    /\ Running("second", "Activation")
    /\ IF Top.state.bottom THEN Yield(None) ELSE YieldFrom(Top.node - 1, Top.state)
    /\ UNCHANGED <<interpreterVars, driver, biasVars>>

\* l.436-440: any other node
from_node_other ==
    /\ Running("start", "Basic")
    /\ YieldFromPredecessor(Top.node, Top.state)
    /\ UNCHANGED <<interpreterVars, driver, biasVars>>

NextFromNode ==
    \/ from_node_function
    \/ from_node_active
    \/ from_node_inactive
    \/ from_node_both
    \/ from_node_second
    \/ from_node_other

SpecFromNode == InitFromNode /\ [][NextFromNode]_vars

\* the loop of worker2 (l.469) takes from the generator until it is exhausted
FairSpecFromNode == SpecFromNode /\ WF_vars(NextFromNode)

\* ---------------------------------------------------------------- claims

\* C1: once all Worker-1 processes have exited, the percents of the chunks that took
\* the feasible branch plus those of the chunks that took the abandon branch sum to 100.
C1_PercentConserved ==
    AllWorker1Gone => BagPercent(tookFeasible) + BagPercent(tookAbandon) = Hundred

C3_ExploredAtMost100 == explored <= Hundred

C3_Witness ==
    /\ explored = Hundred
    /\ tookFeasible # EmptyBag
    /\ tookAbandon # EmptyBag

\* C4: biased% <= feasible% in every state of the bias analysis: what the Worker-2
\* processes add to biased over all chunks of all compressed patterns never exceeds
\* the sum of percent over the chunks that took the feasible branch.
C4_BiasedAtMostFeasible ==
    /\ biased <= feasible
    /\ biased <= BagPercent(tookFeasible)

C4_Witness ==
    /\ driver = "done"
    /\ biased > 0
    /\ biased = feasible
    /\ \E chunk \in DOMAIN tookFeasible : Cardinality(chunk.unpacked) >= 2

\* the key rep subsumes the key k: at every position its active set and its inactive
\* set are subsets of those of k
Subsumes(rep, k) ==
    \A i \in 1..Len(k) : rep[i][1] \subseteq k[i][1] /\ rep[i][2] \subseteq k[i][2]

\* C11: after the compression every key of the patterns dict is represented by a key
\* of compressed that subsumes it and whose pack holds all the chunks of the key.
C11_EveryKeyRepresented ==
    driver # "compress" =>
        \A k \in DOMAIN patterns :
            \E i \in 1..Len(compressed) :
                /\ Subsumes(compressed[i][1], k)
                /\ patterns[k] \subseteq compressed[i][2]

\* three keys, the one with the largest pack processed last and subsuming the other
\* two: the entry that represented the first two keys was replaced by a merge-2
C11_Witness ==
    /\ driver = "load"
    /\ Len(compressed) = 1
    /\ Cardinality(DOMAIN patterns) = 3
    /\ compressed[1][1] \in DOMAIN patterns
    /\ Cardinality(patterns[compressed[1][1]]) = 2
    /\ Cardinality(compressed[1][2]) = 4

\* C12: after every iteration of the merge loop compressed has at most as many keys
\* as were processed (and fewer once two of the processed keys are comparable), so in
\* the end it has at most as many keys as the patterns dict.
C12_NeverMoreKeys ==
    /\ driver = "compress" =>
          \A sorted \in SortedPatterns : \A n \in 0..Len(sorted) :
             LET comp == CompressLoop(SubSeq(sorted, 1, n), <<>>) IN
             /\ Len(comp) <= n
             /\ \A i, j \in 1..Len(comp) : i # j => comp[i][1] # comp[j][1]
             /\ (\E i, j \in 1..n : i # j /\ Subsumes(sorted[i], sorted[j])) => Len(comp) < n
    /\ driver # "compress" => Len(compressed) <= Cardinality(DOMAIN patterns)

C12_Witness ==
    /\ driver = "load"
    /\ Len(compressed) = 2
    /\ Cardinality(DOMAIN patterns) = 3

\* the step of the Worker-1 w that is at pc: it is w that leaves its state
StepOfWorker1(w, pc) == w.pc = pc /\ CopiesIn(w, w1') < CopiesIn(w, w1)

\* the counters and the dictionaries
countersAndDicts == <<partitions, feasible, explored, biased, analyzed, patterns, packs>>

C14_AbandonStep ==
    [][\A w \in DOMAIN w1 :
          StepOfWorker1(w, "abandon") =>
             LET t == w.task IN
             /\ ~w.feas[1]
             /\ t.pivot1 = Len(cfg.uncontroversial1)
             /\ cfg.uncontroversial2 = <<>> \/ t.splittable = <<>>
             /\ explored' = explored + t.percent
             /\ UNCHANGED <<feasible, partitions, patterns, packs, biased, analyzed>>
             /\ UNCHANGED <<posted, tookFeasible>>
             /\ queue1' = IF explored' >= Hundred THEN Append(queue1, Sentinel) ELSE queue1]_vars

\* a chunk was abandoned and nothing was feasible so far
C14_Witness ==
    /\ tookAbandon # EmptyBag
    /\ explored = BagPercent(tookAbandon)
    /\ 0 < explored /\ explored < Hundred
    /\ feasible = 0 /\ partitions = 0 /\ patterns = EmptyDict

\* the oracle has reported a disjunctive ReLU for every partition so far: with widening 0
\* no task was found feasible
AlwaysDisjunctiveSoFar == cfg.widening = 0 /\ tookFeasible = EmptyBag

\* every chunk is abandoned with every range of width <= difference, explored% is 100,
\* every Worker-1 has exited, nothing is recorded and feasible% is 0
AllAbandoned ==
    /\ explored = Hundred
    /\ \A w \in DOMAIN w1 : w.pc = "exit"
    /\ BagPercent(tookAbandon) = Hundred
    /\ \A chunk \in DOMAIN tookAbandon :
          \A r \in chunk.ranges : r[2][2] - r[2][1] <= cfg.difference
    /\ patterns = EmptyDict
    /\ partitions = 0
    /\ feasible = 0

\* C15: with widening 0 and an oracle that reports a disjunctive ReLU for every
\* partition, under fair scheduling the run comes to the state in which every chunk is
\* abandoned with ranges of width <= difference, explored% is 100, all workers have
\* exited, no chunk is recorded and feasible% < 100.
C15_AllAbandonedEventually == <>(~AlwaysDisjunctiveSoFar \/ AllAbandoned)

\* C15 for the runs in which packing has a consumer (more than one CPU) or is not
\* called (no one-hot group)
C15_AllAbandonedEventuallyWithConsumer ==
    <>(~AlwaysDisjunctiveSoFar \/ AllAbandoned
       \/ (cfg.cpu = 1 /\ cfg.uncontroversial1 # <<>>))

\* C16: with difference = 1.0 and a single custom encoded feature the bisection branch
\* is never taken: every task on Q1 or held by a worker and every recorded chunk has
\* the range (0, 1) for that feature.
C16_NoBisectionAtDifferenceOne ==
    (cfg.difference = RangeOne /\ Len(cfg.uncontroversial2) = 1) =>
        /\ \A w \in DOMAIN w1 : w.pc # "bisect"
        /\ \A i \in 1..Len(queue1) :
              ~IsSentinel(queue1[i]) => queue1[i][1].ranges = <<(<<0, RangeOne>>)>>
        /\ \A w \in DOMAIN w1 :
              /\ w.task # NoTask => w.task.ranges = <<(<<0, RangeOne>>)>>
              /\ \A i \in 1..Len(w.todo) : w.todo[i].ranges = <<(<<0, RangeOne>>)>>
        /\ \A k \in DOMAIN patterns : \A chunk \in patterns[k] :
              chunk.ranges = {<<1, <<0, RangeOne>>>>}
        /\ \A chunk \in DOMAIN tookAbandon : chunk.ranges = {<<1, <<0, RangeOne>>>>}

\* a chunk recorded after the feature was found exhausted
C16_Witness ==
    /\ cfg.difference = RangeOne
    /\ Len(cfg.uncontroversial2) = 1
    /\ cfg.uncontroversial1 = <<>>
    /\ dequeued >= 2
    /\ patterns # EmptyDict

\* C17: if the network has no more than widening activation nodes, the initial task is
\* feasible when it is first processed: there is no 1-hot split and no range split, one
\* partition is recorded (one key with one chunk of percent 100), feasible% =
\* explored% = 100 and the sentinel is posted.
C17_FewActivationsOnePartition ==
    NumActivations <= cfg.widening =>
        /\ posted = 1 /\ dequeued <= 1
        /\ packs = EmptyDict /\ producer.pc = "none"
        /\ tookAbandon = EmptyBag
        /\ \A w \in DOMAIN w1 :
              w.pc \in {"get", "partitions", "feasible", "explored", "record", "store",
                        "repost", "exit"}
        /\ (dequeued = 1 /\ \A w \in DOMAIN w1 : w.pc \notin {"partitions", "feasible", "explored"}) =>
              /\ partitions = 1
              /\ feasible = Hundred /\ explored = Hundred
              /\ SentinelOnQ1 \/ \E w \in DOMAIN w1 : w.pc = "repost"
        /\ (dequeued = 1 /\ \A w \in DOMAIN w1 : w.pc \in {"get", "repost", "exit"}) =>
              \E k \in DOMAIN patterns :
                 /\ DOMAIN patterns = {k}
                 /\ patterns[k] = {Chunk(InitialTask)}
                 /\ Chunk(InitialTask).percent = Hundred

\* the run of a network with one-hot and custom encoded features has ended with the
\* one partition
C17_Witness ==
    /\ NumActivations <= cfg.widening
    /\ cfg.uncontroversial1 # <<>>
    /\ driver = "compress"
    /\ partitions = 1
    /\ explored = Hundred

\* the number of chunks of the patterns on Q2
RECURSIVE ChunksOnQ2(_)
ChunksOnQ2(q) ==
    IF q = <<>> THEN 0
    ELSE (IF Head(q) = Sentinel2 THEN 0 ELSE Cardinality(Head(q)[1].pack)) + ChunksOnQ2(Tail(q))

\* the number of chunks of the patterns the Worker-2 processes hold
RECURSIVE ChunksHeld(_)
ChunksHeld(b) ==
    IF DOMAIN b = {} THEN 0
    ELSE LET w == CHOOSE x \in DOMAIN b : TRUE IN
         w.size * b[w] + ChunksHeld([x \in DOMAIN b \ {w} |-> b[x]])

\* the number of chunks of compressed
ChunksCompressed == Cardinality(UNION {compressed[i][2] : i \in 1..Len(compressed)})

\* C18, safety: every pattern loaded on Q2 is on Q2, held by one Worker-2 or analyzed,
\* once; the sentinel is behind every pattern, so no Worker-2 has taken it while a pattern
\* is on Q2, and when the Worker-2 processes are joined every pattern was checked.
C18_Q2ExactlyOnce ==
    driver \in {"bias", "done"} =>
        /\ ChunksOnQ2(queue2) + ChunksHeld(w2) + analyzed = ChunksCompressed
        /\ ChunksCompressed = partitions
        /\ \A i \in 1..Len(queue2) : \A j \in i..Len(queue2) :
              queue2[i] = Sentinel2 => queue2[j] = Sentinel2
        /\ (\E w \in DOMAIN w2 : w.pc \in {"repost", "exit"}) => ChunksOnQ2(queue2) = 0
        /\ \A w \in DOMAIN w2 : w.pc \in {"check", "analyzed"} <=> w.size > 0
        /\ Cardinality({i \in 1..Len(queue2) : queue2[i] = Sentinel2})
              + Cardinality({w \in DOMAIN w2 : w.pc = "repost"}) = 1
        /\ driver = "done" => analyzed = ChunksCompressed /\ queue2 = <<Sentinel2>>

\* the pre-analysis is blocked: a Worker-1 waits on the empty Q1 and no other can put
PreAnalysisBlocked ==
    /\ driver = "pre"
    /\ queue1 = <<>>
    /\ \E w \in DOMAIN w1 : w.pc = "get"
    /\ \A w \in DOMAIN w1 : w.pc \in {"get", "exit", "crashed"}

\* C18, liveness: under fair scheduling, unless the pre-analysis is blocked, every
\* Worker-2 takes the sentinel, puts it back and exits, so that the driver joins them.
C18_Worker2Exit == <>(driver = "done" \/ PreAnalysisBlocked)

\* C18: the Q2 protocol, safety and liveness together
C18_Q2Protocol == []C18_Q2ExactlyOnce /\ C18_Worker2Exit

\* two patterns were checked by two Worker-2 processes, which have exited
C18_Witness ==
    /\ driver = "done"
    /\ cfg.cpu = 2
    /\ Len(compressed) = 2
    /\ analyzed = 2

\* C5: every key of the patterns dict has, at every sensitive value,
\* |activations| - |active| - |inactive| <= widening, and feasibility returns
\* feasible = true iff analyze leaves at most widening disjunctions for every value.
C5_RecordedWithinWidening ==
    /\ \A key \in DOMAIN patterns :
          /\ Len(key) = NumValues
          /\ \A i \in 1..Len(key) :
                NumActivations - Cardinality(key[i][1]) - Cardinality(key[i][2]) <= cfg.widening
    /\ \A results \in AnalyzeResults :
          feasibility(results, FALSE)[1] <=>
             \A i \in 1..NumValues :
                NumActivations - Cardinality(results[i][1]) - Cardinality(results[i][2])
                   <= cfg.widening

C5_Witness ==
    /\ tookAbandon # EmptyBag
    /\ \E key \in DOMAIN patterns : \E i \in 1..Len(key) :
          NumActivations - Cardinality(key[i][1]) - Cardinality(key[i][2]) = cfg.widening

\* C6: when the processes of packing have been joined, the sizes of the packs sum to
\* count, for every number of CPUs >= 1.
C6_PacksCoverCount == PackingJoined => PacksCount(packs) = count

\* C7: under fair scheduling explored% eventually reaches 100 and every Worker-1
\* eventually exits through the sentinel.
C7_PreAnalysisTerminates ==
    <>(explored = Hundred /\ \A w \in DOMAIN w1 : w.pc = "exit")

C9_PatternsFinal ==
    driver = "compress" =>
        /\ UNION {patterns[k] : k \in DOMAIN patterns} = DOMAIN tookFeasible
        /\ PacksCount(patterns) = BagCardinality(tookFeasible)
        /\ PacksCount(patterns) = partitions
        /\ DictPercent(patterns) = feasible

C9_Witness ==
    /\ driver = "compress"
    /\ \E k \in DOMAIN patterns : Cardinality(patterns[k]) >= 2

\* C10: once a Worker-1 has died from an uncaught exception, the driver does not go on
\* to compression and no worker is left waiting on Q1 for ever.
C10_CrashStopsRun ==
    SomeWorker1Crashed =>
        /\ driver = "pre"
        /\ ~(/\ queue1 = <<>>
             /\ \E w \in DOMAIN w1 : w.pc = "get"
             /\ \A w \in DOMAIN w1 : w.pc \in {"get", "exit", "crashed"})

\* variables[i] is one and every other variable is zero at the point
OneHotPoint(point, variables, i) ==
    /\ point[variables[i]] = RangeOne
    /\ \A j \in (1..Len(variables)) \ {i} : point[variables[j]] = 0

\* one_hots returned |variables| elements, the i-th pairing variables[i] with an
\* expression true exactly where variables[i] = 1 and the other variables are 0,
\* and no two of the expressions are true at the same point
OneHotsElements(variables, values) ==
    /\ Cardinality(values) = Len(variables)
    /\ \A i \in 1..Len(variables) :
          \E value \in values :
             /\ value[1] = variables[i]
             /\ \A point \in Points(variables) :
                   Satisfies(point, value[2]) <=> OneHotPoint(point, variables, i)
    /\ \A a \in values : \A b \in values \ {a} :
          \A point \in Points(variables) :
             ~(Satisfies(point, a[2]) /\ Satisfies(point, b[2]))

\* 0 <= v_i <= 1 for all i and the v_i sum to 1
InSimplex(point, variables) ==
    /\ \A x \in DOMAIN point : 0 <= point[x] /\ point[x] <= RangeOne
    /\ SumAt(point, DOMAIN point) = RangeOne

\* C19, as stated: one_hots(v) returns |v| elements (none for the empty list), the i-th
\* pairing v_i with v_i = 1 and v_j = 0 for j # i, pairwise mutually exclusive, and their
\* disjunction is true exactly at the points with 0 <= v_i <= 1 for all i and sum 1.
C19_OneHotsCoverSimplex ==
    (invocation.fn = "one_hots" /\ invocation.pc = "returned") =>
        /\ OneHotsElements(invocation.variables, invocation.values)
        /\ \A point \in Points(invocation.variables) :
              (\E value \in invocation.values : Satisfies(point, value[2]))
                 <=> InSimplex(point, invocation.variables)

\* C19, amended: one_hots(v) returns |v| elements (none for the empty list), the i-th
\* pairing v_i with v_i = 1 and v_j = 0 for j # i, pairwise mutually exclusive, and their
\* disjunction is true exactly at the points with every v_i in {0, 1} and sum 1.
C19_OneHotsCoverOneHotPoints ==
    (invocation.fn = "one_hots" /\ invocation.pc = "returned") =>
        /\ OneHotsElements(invocation.variables, invocation.values)
        /\ \A point \in Points(invocation.variables) :
              (\E value \in invocation.values : Satisfies(point, value[2]))
                 <=> /\ \A x \in DOMAIN point : point[x] \in {0, RangeOne}
                     /\ SumAt(point, DOMAIN point) = RangeOne

\* one_hots returned the three values of a list of three variables
C19_Witness ==
    /\ invocation.fn = "one_hots"
    /\ invocation.pc = "returned"
    /\ Len(invocation.variables) = 3
    /\ Cardinality(invocation.values) = 3

\* d: the activation nodes of the chain that are neither in active nor in inactive
DisjunctiveNodes ==
    ActivationNodes(invocation.chain) \ (invocation.active \cup invocation.inactive)

\* the branches of a state agree with active and inactive, one branch for each node
\* the state went through
BranchesAllowed(state) ==
    /\ \A k \in 1..Len(state.path) :
          LET node == state.path[k][1]
              branch == state.path[k][2]
          IN  /\ invocation.chain[node] = "Activation"
              /\ node \in invocation.active => branch = "active"
              /\ node \in invocation.inactive => branch = "inactive"
              /\ branch \in {"active", "inactive"}
    /\ \A k \in 1..Len(state.path) : \A l \in 1..Len(state.path) :
          state.path[k][1] = state.path[l][1] => k = l

\* C20, safety: with join = false, from_node has yielded at most 2^d results; a call
\* waits for a second branch only at a disjunctive node, once for each such node, and
\* the waiting branch is the inactive one; every state on the way or yielded took the
\* active branch at the nodes of active, the inactive branch at the nodes of inactive,
\* and the yielded states took different branches.
C20_AtMostTwoToTheD ==
    (invocation.fn = "from_node" /\ ~invocation.join) =>
        LET stack == invocation.stack
            yielded == invocation.yielded
        IN  /\ Len(yielded) <= Pow2(Cardinality(DisjunctiveNodes))
            /\ \A k \in 1..Len(stack) :
                  /\ BranchesAllowed(stack[k].state)
                  /\ stack[k].pc = "second" =>
                        /\ stack[k].node \in DisjunctiveNodes
                        /\ stack[k].state.path[Len(stack[k].state.path)]
                              = <<stack[k].node, "inactive">>
                        /\ \A l \in 1..Len(stack) :
                              (stack[l].pc = "second" /\ stack[l].node = stack[k].node)
                                 => l = k
            /\ Len(stack) <= Cardinality(DisjunctiveNodes) + 1
            /\ \A k \in 1..Len(yielded) :
                  /\ BranchesAllowed(yielded[k])
                  /\ \A l \in 1..Len(yielded) :
                        (~yielded[k].bottom /\ yielded[k] = yielded[l]) => k = l

\* C20, liveness: from_node terminates
C20_Terminates == <>(invocation.stack = <<>>)

\* C20: for a chain CFG and join = false, from_node terminates and yields at most 2^d
\* results, forking at the disjunctive nodes only and only into their two branches.
C20_FromNodeBounded == []C20_AtMostTwoToTheD /\ C20_Terminates

\* from_node has ended with 2^2 results, none of them None, for two disjunctive nodes
C20_Witness ==
    /\ invocation.fn = "from_node"
    /\ ~invocation.join
    /\ invocation.stack = <<>>
    /\ Cardinality(DisjunctiveNodes) = 2
    /\ Len(invocation.yielded) = 4
    /\ \A k \in 1..4 : ~invocation.yielded[k].bottom

\* the sum of percent over a sequence of tasks
RECURSIVE SeqPercent(_)
SeqPercent(tasks) == IF tasks = <<>> THEN 0 ELSE Head(tasks).percent + SeqPercent(Tail(tasks))

\* the tasks are one per pack of packs, in descending order of score(key) + |pack|, each
\* with pivot1 = |one-hot groups|, unpacked = its pack, the ranges, pivot2 and splittable
\* of the parent t, the key of its pack and percent = t.percent * |pack| / count
OnePerPack(t, tasks) ==
    /\ Len(tasks) = Cardinality(DOMAIN packs)
    /\ {tasks[i].key : i \in 1..Len(tasks)} = DOMAIN packs
    /\ \A i \in 1..Len(tasks) : \A j \in i..Len(tasks) :
          score(tasks[i].key) + Cardinality(packs[tasks[i].key])
             >= score(tasks[j].key) + Cardinality(packs[tasks[j].key])
    /\ \A i \in 1..Len(tasks) :
          LET pack == packs[tasks[i].key] IN
          /\ tasks[i].pivot1 = Len(cfg.uncontroversial1)
          /\ tasks[i].unpacked = {SeqRange(item) : item \in pack}
          /\ Cardinality(tasks[i].unpacked) = Cardinality(pack)
          /\ tasks[i].ranges = t.ranges
          /\ tasks[i].pivot2 = t.pivot2
          /\ tasks[i].splittable = t.splittable
          /\ tasks[i].percent * count = t.percent * Cardinality(pack)
    /\ SeqPercent(tasks) = t.percent

\* the step that ends the packing of the task of w leaves w with the tasks of the
\* 1-hot split to post, and each later step of w posts the first of those left
OneHotSplitSteps(w) ==
    /\ StepOfWorker1(w, "join3") =>
          /\ ~w.feas[1]
          /\ w.task.pivot1 < Len(cfg.uncontroversial1)
          /\ \E v \in DOMAIN w1' :
                /\ CopiesIn(v, w1') > CopiesIn(v, w1)
                /\ v.pc = "post"
                /\ v.task = w.task
                /\ OnePerPack(w.task, v.todo)
          /\ UNCHANGED <<queue1, posted, packs>>
    /\ (StepOfWorker1(w, "post") /\ w.task.pivot1 < Len(cfg.uncontroversial1)) =>
          /\ queue1' = Append(queue1, Some(Head(w.todo)))
          /\ posted' = posted + 1
          /\ \E v \in DOMAIN w1' :
                /\ CopiesIn(v, w1') > CopiesIn(v, w1)
                /\ IF Len(w.todo) = 1 THEN v.pc = "get"
                   ELSE v.pc = "post" /\ v.task = w.task /\ v.todo = Tail(w.todo)

\* C21: the 1-hot split of an infeasible task with pivot1 < |one-hot groups| posts
\* exactly one task per pack of packs, in descending order of score(key) + |pack|, each
\* with pivot1 = |one-hot groups|, unpacked = the pack, the parent's ranges, pivot2 and
\* splittable, key = the key of the pack and percent = parent percent * |pack| / count,
\* so that the percents of the children sum to the percent of the parent.
C21_OneHotSplitStep == [][\A w \in DOMAIN w1 : OneHotSplitSteps(w)]_vars

\* the same, for the runs in which packing has a consumer
C21_OneHotSplitStepWithConsumer ==
    [][cfg.cpu > 1 => \A w \in DOMAIN w1 : OneHotSplitSteps(w)]_vars

\* the tasks on Q1, held by a Worker-1 or left to post by one
TasksAround ==
    {queue1[i][1] : i \in {j \in 1..Len(queue1) : ~IsSentinel(queue1[j])}}
       \cup {w.task : w \in {v \in DOMAIN w1 : v.task # NoTask}}
       \cup UNION {SeqRange(w.todo) : w \in DOMAIN w1}

\* every range of every task satisfies 0 <= lower < upper <= 1
C22_RangesWellFormed ==
    \A t \in TasksAround : \A f \in 1..Len(t.ranges) :
        0 <= t.ranges[f][1] /\ t.ranges[f][1] < t.ranges[f][2] /\ t.ranges[f][2] <= RangeOne

\* the task t with the range of feature f replaced and what a bisection changes
Half(t, f, lower, upper) ==
    [t EXCEPT !.ranges = [g \in 1..Len(t.ranges) |-> IF g = f THEN <<lower, upper>> ELSE t.ranges[g]],
              !.percent = t.percent \div 2,
              !.pivot2 = (t.pivot2 + 1) % Len(cfg.uncontroversial2),
              !.key = NoneOpt]

\* the bisection of the task of w posts the left half and then the right half
C22_BisectionSteps ==
    [][\A w \in DOMAIN w1 :
          LET t == w.task
              f == cfg.uncontroversial2[t.pivot2 + 1]
              lower == t.ranges[f][1]
              upper == t.ranges[f][2]
          IN  /\ StepOfWorker1(w, "bisect") =>
                    /\ ~w.feas[1]
                    /\ t.pivot1 = Len(cfg.uncontroversial1)
                    /\ upper - lower > cfg.difference
                    /\ 2 * (t.percent \div 2) = t.percent
                    /\ \E mid \in lower..upper :
                          /\ 2 * (mid - lower) = upper - lower
                          /\ queue1' = Append(queue1, Some(Half(t, f, lower, mid)))
                          /\ \E v \in DOMAIN w1' :
                                /\ CopiesIn(v, w1') > CopiesIn(v, w1)
                                /\ v.pc = "post"
                                /\ v.task = t
                                /\ v.todo = <<Half(t, f, mid, upper)>>
                    /\ posted' = posted + 1
              /\ (StepOfWorker1(w, "post") /\ t.pivot1 = Len(cfg.uncontroversial1)) =>
                    /\ Len(w.todo) = 1
                    /\ queue1' = Append(queue1, Some(w.todo[1]))
                    /\ posted' = posted + 1
                    /\ \E v \in DOMAIN w1' : v.pc = "get" /\ CopiesIn(v, w1') > CopiesIn(v, w1)]_vars

\* C22: the bisection of an infeasible task with pivot1 = |one-hot groups| whose feature f
\* at pivot2 has upper - lower > difference posts exactly two tasks, with the ranges
\* (lower, mid) and (mid, upper) for f, mid = lower + (upper - lower)/2, each with
\* percent/2, pivot2 advanced modulo |uncontroversial2|, key None and everything else
\* as in the parent; every range of every task satisfies 0 <= lower < upper <= 1.
C22_BisectionStep == []C22_RangesWellFormed /\ C22_BisectionSteps

\* the two halves of the first feature are on Q1, with pivot2 at the second feature
C22_Witness ==
    /\ Len(queue1) = 2
    /\ ~IsSentinel(queue1[1]) /\ ~IsSentinel(queue1[2])
    /\ queue1[1][1].ranges[1] = <<0, RangeOne \div 2>>
    /\ queue1[2][1].ranges[1] = <<RangeOne \div 2, RangeOne>>
    /\ queue1[1][1].pivot2 = 1 /\ queue1[2][1].pivot2 = 1
    /\ queue1[1][1].percent = Hundred \div 2

\* the width of the range of feature f in task t
Width(t, f) == t.ranges[f][2] - t.ranges[f][1]

\* the tasks on Q1
TasksOfQ1 == {queue1[i][1] : i \in {j \in 1..Len(queue1) : ~IsSentinel(queue1[j])}}

\* the widths of any two custom encoded features of t differ by at most a factor of 2
WidthsWithinFactor2(t) ==
    \A f \in 1..Len(t.ranges) : \A g \in 1..Len(t.ranges) : Width(t, f) <= 2 * Width(t, g)

\* the features before pivot2 have been bisected once more than those from pivot2 on
\* (feature f has index f - 1 in uncontroversial2)
OnceMoreBeforePivot2(t) ==
    \A f \in 1..Len(t.ranges) : \A g \in 1..Len(t.ranges) :
        (f - 1 < t.pivot2 /\ g - 1 >= t.pivot2) => 2 * Width(t, f) = Width(t, g)

\* C23, as stated: in every task on Q1 the widths of any two custom encoded features
\* differ by at most a factor of 2, the features at index < pivot2 having been bisected
\* once more than the features at index >= pivot2.
C23_RoundRobinOnceMore ==
    \A t \in TasksOfQ1 : WidthsWithinFactor2(t) /\ OnceMoreBeforePivot2(t)

\* C23, amended: in every task on Q1 the widths of any two custom encoded features
\* differ by at most a factor of 2; while no feature has been removed from splittable
\* the features at index < pivot2 have been bisected once more than the features at
\* index >= pivot2, and from then on all features have been bisected equally often.
C23_RoundRobinWidths ==
    \A t \in TasksOfQ1 :
        /\ WidthsWithinFactor2(t)
        /\ t.splittable = cfg.uncontroversial2 => OnceMoreBeforePivot2(t)
        /\ t.splittable # cfg.uncontroversial2 =>
              \A f \in 1..Len(t.ranges) : \A g \in 1..Len(t.ranges) : Width(t, f) = Width(t, g)

\* Q1 holds a task whose two features were bisected once, with pivot2 back at the first
\* one, and a task whose first feature was then removed from splittable
C23_Witness ==
    /\ \E t \in TasksOfQ1 : t.pivot2 = 0 /\ t.splittable = cfg.uncontroversial2
                            /\ Width(t, 1) = Width(t, 2) /\ Width(t, 1) < RangeOne
    /\ \E t \in TasksOfQ1 : t.pivot2 = 1 /\ t.splittable = <<2>>
                            /\ Width(t, 1) = Width(t, 2) /\ Width(t, 1) < RangeOne

\* C24: after the compression no two distinct keys of compressed subsume one another,
\* whatever the patterns dict and the order among the packs of equal size.
C24_NoSubsumingKeys ==
    driver # "compress" =>
        \A i \in 1..Len(compressed) : \A j \in 1..Len(compressed) :
            i # j => ~Subsumes(compressed[i][1], compressed[j][1])

\* the chunks of the entries of a compressed dict, and the entries in which chunk c is
ChunksOf(comp) == UNION {comp[i][2] : i \in 1..Len(comp)}
EntriesWith(comp, c) == {i \in 1..Len(comp) : c \in comp[i][2]}

\* one iteration of the merge loop, from comp to next with the key key1 of the patterns
\* dict: the first entry whose key is comparable with key1 takes the chunks of key1,
\* under its own key if that subsumes key1 and under key1 otherwise, the old key being
\* deleted; without such an entry key1 is inserted with its chunks
IterationKeepsChunks(comp, key1, next) ==
    LET pack1 == patterns[key1]
        hits == {i \in 1..Len(comp) :
                    Subsumes(comp[i][1], key1) \/ Subsumes(key1, comp[i][1])}
    IN  /\ ChunksOf(next) = ChunksOf(comp) \cup pack1
        /\ \A c \in ChunksOf(next) : Cardinality(EntriesWith(next, c)) = 1
        /\ hits = {} =>
              /\ next = Append(comp, <<key1, pack1>>)
        /\ hits # {} =>
              LET i == CHOOSE h \in hits : \A g \in hits : h <= g
                  key2 == comp[i][1]
              IN  /\ \A j \in (1..Len(comp)) \ {i} : \E k \in 1..Len(next) : next[k] = comp[j]
                  /\ Subsumes(key2, key1) =>
                        /\ Len(next) = Len(comp)
                        /\ next[i] = <<key2, comp[i][2] \cup pack1>>
                  /\ ~Subsumes(key2, key1) =>
                        /\ Len(next) = Len(comp)
                        /\ \A k \in 1..Len(next) : next[k][1] # key2
                        /\ \E k \in 1..Len(next) : next[k] = <<key1, comp[i][2] \cup pack1>>

\* C25: the compression neither loses nor duplicates chunks: after every iteration, and
\* so in the end, the chunks of compressed are those of the processed keys of the
\* patterns dict, each under exactly one key; a key with no match is inserted with its
\* chunks unchanged; after a merge-2 the old key is absent and the new key holds the union.
C25_ChunksKept ==
    /\ driver = "compress" =>
          \A sorted \in SortedPatterns : \A n \in 1..Len(sorted) :
             IterationKeepsChunks(CompressLoop(SubSeq(sorted, 1, n - 1), <<>>), sorted[n],
                                  CompressLoop(SubSeq(sorted, 1, n), <<>>))
    /\ driver # "compress" =>
          /\ ChunksOf(compressed) = UNION {patterns[k] : k \in DOMAIN patterns}
          /\ \A c \in ChunksOf(compressed) : Cardinality(EntriesWith(compressed, c)) = 1
          /\ \A i \in 1..Len(compressed) : \A j \in 1..Len(compressed) :
                i # j => compressed[i][1] # compressed[j][1]

\* four chunks under three keys were compressed to two entries, one of them under a key
\* that took over the chunks of another by a merge-2
C25_Witness ==
    /\ driver = "load"
    /\ Cardinality(DOMAIN patterns) = 3
    /\ Cardinality(ChunksOf(compressed)) = 4
    /\ Len(compressed) = 2
    /\ \E i \in 1..2 : \E k \in DOMAIN patterns :
          /\ k # compressed[i][1]
          /\ Subsumes(compressed[i][1], k)
          /\ compressed[i][2] = patterns[k] \cup patterns[compressed[i][1]]
          /\ Cardinality(patterns[compressed[i][1]]) >= Cardinality(patterns[k])

\* ---------------------------------------------------------------- bias_check alone
\* self.outputs: the output classes
outputs == {"y0", "y1"}

\* The abstract states bias_check meets are boxes here: an interval, in units of
\* 1/RangeOne, for every custom encoded feature; Bottom is the empty state.
Bottom == NoneOpt
Intervals == {itv \in (0..RangeOne) \X (0..RangeOne) : itv[1] <= itv[2]}
BiasStates(features) == {Some(box) : box \in [features -> Intervals]} \cup {Bottom}

min(a, b) == IF a <= b THEN a ELSE b
max(a, b) == IF a >= b THEN a ELSE b

\* deepcopy(val1).meet(val2)
meet(val1, val2) ==
    IF val1 = Bottom \/ val2 = Bottom THEN Bottom
    ELSE LET met == [f \in DOMAIN val1[1] |->
                        <<max(val1[1][f][1], val2[1][f][1]), min(val1[1][f][2], val2[1][f][2])>>] IN
         IF \E f \in DOMAIN met : met[f][1] > met[f][2] THEN Bottom ELSE Some(met)

\* intersection.assume({lower <= feature and feature <= upper}), for every range
assume_ranges(intersection, ranges) ==
    meet(intersection,
         Some([f \in {r[1] : r \in ranges} |-> (CHOOSE r \in ranges : r[1] = f)[2]]))

\* mutant of ComparedItems: every two items are compared
ComparedItems_All(items) ==
    {p \in (1..Len(items)) \X (1..Len(items)) : p[1] < p[2]}

\* the items i < j with outcome1 != outcome2 and sensitive1 != sensitive2
ComparedItems(items) ==
    {p \in (1..Len(items)) \X (1..Len(items)) :
        /\ p[1] < p[2]
        /\ items[p[1]][1][1] # items[p[2]][1][1]
        /\ items[p[1]][1][2] # items[p[2]][1][2]}

\* the intersections that are built, and those of them that are a bias: their
\* representation is neither bottom nor unsatisfiable
Intersections(items, ranges) ==
    UNION {{assume_ranges(meet(val1, val2), ranges) :
                val1 \in items[p[1]][2], val2 \in items[p[2]][2]} : p \in ComparedItems(items)}
biases(items, ranges) == Intersections(items, ranges) \ {Bottom}

\* b_ranges[uncontroversial] = (min(lower, inf), max(upper, sup)), over the biases found
b_ranges_of(found, features) ==
    [f \in features |->
        <<CHOOSE lower \in {b[1][f][1] : b \in found} : \A b \in found : lower <= b[1][f][1],
          CHOOSE upper \in {b[1][f][2] : b \in found} : \A b \in found : upper >= b[1][f][2]>>]

\* what one call of bias_check adds to self.biased.value
bias_check(items, ranges, percent) ==
    LET found == biases(items, ranges) IN
    IF found = {} THEN 0
    ELSE BiasPercent(percent, b_ranges_of(found, {r[1] : r \in ranges}), ranges)

\* the interpreter of a network with one custom encoded feature
BiasCheckConfigs ==
    [cpu : {1}, uncontroversial1 : {<<>>}, uncontroversial2 : {<<1>>},
     difference : {RangeOne}, widening : {0}]

\* the results of the backward analysis given to bias_check: for every outcome and
\* sensitive value at most one state, in the order worker2 fills the dict
ResultKeys == <<<<"y0", "s1">>, <<"y1", "s1">>, <<"y0", "s2">>, <<"y1", "s2">>>>
Results ==
    {[i \in 1..Len(ResultKeys) |-> <<ResultKeys[i], value[i]>>] :
        value \in [1..Len(ResultKeys) -> {{}} \cup {{s} : s \in BiasStates({1})}]}

\* the ranges of a chunk and the percents of the input space it can cover
ChunkRanges == {{<<1, itv>>} : itv \in {i \in Intervals : i[1] < i[2]}}
ChunkPercents == {Hundred, Hundred \div 2}

\* a call of bias_check, before it runs
InitBiasCheck ==
    /\ ConstructedWith(BiasCheckConfigs)
    /\ \E result \in Results, ranges \in ChunkRanges, percent \in ChunkPercents :
          invocation = [fn |-> "bias_check", pc |-> "called",
                        result |-> result, ranges |-> ranges, percent |-> percent]

\* def bias_check(self, chunk, result, ranges, percent)
bias_check_call ==
    /\ invocation.fn = "bias_check"
    /\ invocation.pc = "called"
    /\ biased' = biased + bias_check(invocation.result, invocation.ranges, invocation.percent)
    /\ invocation' = [invocation EXCEPT !.pc = "returned"]
    /\ UNCHANGED <<interpreterVars, driver, compressed, queue2, w2, analyzed>>

NextBiasCheck == bias_check_call

SpecBiasCheck == InitBiasCheck /\ [][NextBiasCheck]_vars

\* ---------------------------------------------------------------- C26
\* the witnesses of a call of bias_check: the non-empty intersections, within the
\* ranges of the chunk, of a state of one class and sensitive value with a state of
\* another class and another sensitive value
WitnessesOf(c) ==
    {x \in UNION {{assume_ranges(meet(s1, s2), c.ranges) : s1 \in c.result[p[1]][2],
                                                           s2 \in c.result[p[2]][2]} :
                    p \in {q \in (1..Len(c.result)) \X (1..Len(c.result)) :
                            /\ c.result[q[1]][1][1] # c.result[q[2]][1][1]
                            /\ c.result[q[1]][1][2] # c.result[q[2]][1][2]}} : x # Bottom}

\* box a lies within box b
WithinBox(a, b) == \A f \in DOMAIN a : b[f][1] <= a[f][1] /\ a[f][2] <= b[f][2]

\* the bounding box of the witnesses: the least box they all lie within
BoundingBox(found, features) ==
    CHOOSE box \in [features -> Intervals] :
        /\ \A x \in found : WithinBox(x[1], box)
        /\ \A other \in [features -> Intervals] :
              (\A x \in found : WithinBox(x[1], other)) => WithinBox(box, other)

\* the product of the widths of a box
RECURSIVE Volume(_)
Volume(box) ==
    IF DOMAIN box = {} THEN 1
    ELSE LET f == CHOOSE x \in DOMAIN box : TRUE IN
         (box[f][2] - box[f][1]) * Volume([x \in DOMAIN box \ {f} |-> box[x]])

\* what the call of bias_check that is returning has added to biased
AddedToBiased == biased' - biased

\* C26: one call of bias_check changes biased by exactly 0 when no two states of
\* different class and different sensitive value have a non-empty intersection, and
\* otherwise by percent * biased_volume / total_volume, an amount between 0 and
\* percent, where biased_volume is the volume of the bounding box of all witnesses
\* and total_volume the volume of the ranges of the chunk; states of the same class
\* or of the same sensitive value are therefore never intersected.  The amount is
\* always one of those worker2 is modelled to add in the analysis.
C26_BiasCheckAmount ==
    /\ [][(invocation.fn = "bias_check" /\ invocation.pc = "called"
            /\ invocation'.pc = "returned") =>
          LET found == WitnessesOf(invocation)
              features == {r[1] : r \in invocation.ranges} IN
          /\ found = {} => AddedToBiased = 0
          /\ found # {} =>
                /\ AddedToBiased = (invocation.percent * Volume(BoundingBox(found, features)))
                                        \div Volume([f \in features |->
                                                (CHOOSE r \in invocation.ranges : r[1] = f)[2]])
                /\ 0 <= AddedToBiased
                /\ AddedToBiased <= invocation.percent
          /\ \/ AddedToBiased = 0
             \/ \E b \in BRanges(invocation.ranges) :
                   AddedToBiased = BiasPercent(invocation.percent, b, invocation.ranges)]_vars

\* a call has returned that found two witnesses, one not within the other, and added
\* a part of the percent of the chunk, while two states of the same sensitive value and
\* of different classes meet too
C26_Witness ==
    /\ invocation.fn = "bias_check"
    /\ invocation.pc = "returned"
    /\ \E x, y \in WitnessesOf(invocation) : ~WithinBox(x[1], y[1]) /\ ~WithinBox(y[1], x[1])
    /\ 0 < biased
    /\ biased < invocation.percent
    /\ \E i, j \in 1..Len(invocation.result) :
          /\ invocation.result[i][1][1] # invocation.result[j][1][1]
          /\ invocation.result[i][1][2] = invocation.result[j][1][2]
          /\ \E s1 \in invocation.result[i][2], s2 \in invocation.result[j][2] :
                assume_ranges(meet(s1, s2), invocation.ranges) # Bottom

\* ---------------------------------------------------------------- C27
\* uncontroversial2 without its first k features
FeaturesFrom(k) == SubSeq(cfg.uncontroversial2, k + 1, Len(cfg.uncontroversial2))

\* the features missing from the splittable of t are the first k ones, and after a
\* removal pivot2 is at the next feature (at 0 again after the last one)
RemovedInIndexOrder(t) ==
    \E k \in 0..Len(cfg.uncontroversial2) :
        /\ t.splittable = FeaturesFrom(k)
        /\ k > 0 => t.pivot2 = k % Len(cfg.uncontroversial2)

\* the feature that the exhausted-feature branch removes from the task t
FeatureAtPivot2(t) == cfg.uncontroversial2[t.pivot2 + 1]

C27_StillSplittable ==
    /\ \A t \in TasksAround : RemovedInIndexOrder(t)
    /\ \A w \in DOMAIN w1 :
          /\ w.pc = "exhausted" =>
                /\ FeatureAtPivot2(w.task) \in SeqRange(w.task.splittable)
                /\ w.task.splittable = cfg.uncontroversial2 => w.task.pivot2 = 0
          /\ w.pc = "bisect" => w.task.splittable = cfg.uncontroversial2

C27_RemovalSteps ==
    [][\A w \in DOMAIN w1 :
          StepOfWorker1(w, "exhausted") =>
             /\ Len(queue1') = Len(queue1) + 1
             /\ ~IsSentinel(queue1'[Len(queue1')])
             /\ queue1'[Len(queue1')][1].splittable = FeaturesFrom(w.task.pivot2 + 1)
             /\ \A v \in DOMAIN w1' : v.pc # "crashed"]_vars

\* C27: whenever Worker-1 takes the exhausted-feature branch, uncontroversial2[pivot2]
\* is still in splittable, so that the removal never fails and the step posts the task
\* without that feature; exhaustion is first detected at pivot2 = 0 (with the whole
\* splittable) and the features are then removed in index order: the splittable of every
\* task is uncontroversial2 without its first k features, with pivot2 at the next
\* feature, and a task that has lost a feature is never bisected again, so that the
\* removals go on until splittable is empty.
C27_ExhaustedInOrder == []C27_StillSplittable /\ C27_RemovalSteps

\* the first feature has been removed and a Worker-1 is about to remove the second,
\* last one
C27_Witness ==
    \E w \in DOMAIN w1 :
        /\ w.pc = "exhausted"
        /\ Len(cfg.uncontroversial2) = 2
        /\ w.task.splittable = FeaturesFrom(1)
        /\ w.task.pivot2 = 1

\* ---------------------------------------------------------------- C28
\* the Worker-1 w is running packing: it has called it and has not gone past the join
\* of its processes
InPacking(w) == w.pc \in {"packing", "join3"}

C28_OnlyInitialTask ==
    /\ \A t \in TasksAround : t # InitialTask => t.pivot1 = Len(cfg.uncontroversial1)
    /\ \A w \in DOMAIN w1 :
          InPacking(w) =>
             /\ w.task = InitialTask
             /\ dequeued = 1
             /\ w1[w] = 1
             /\ \A v \in DOMAIN w1 : InPacking(v) => v = w

C28_PackingSteps ==
    [][/\ \A w \in DOMAIN w1 : StepOfWorker1(w, "packing") => packs = EmptyDict
       /\ packs' # packs => \E w \in DOMAIN w1 : w.pc = "join3" /\ w.task = InitialTask]_vars

\* C28: packing runs at most once per run and only for the initial task: every task
\* on Q1 (or held by a Worker-1) other than the initial one has pivot1 = |one-hot
\* groups|; a Worker-1 that runs packing holds the initial task, which is the only task
\* dequeued so far, and is the only one that runs it; packing starts with packs empty
\* and packs changes only during that run, so that it never has entries of two runs.
C28_PackingOnce == []C28_OnlyInitialTask /\ C28_PackingSteps

\* packing has run and a Worker-1 holds one of the tasks posted after it
C28_Witness ==
    /\ packs # EmptyDict
    /\ dequeued > 1
    /\ \E w \in DOMAIN w1 :
          /\ w.pc \in {"partitions", "exhausted", "abandon"}
          /\ w.task # InitialTask
          /\ w.task.pivot1 = Len(cfg.uncontroversial1)
          /\ w.task.pivot1 > 0

\* ---------------------------------------------------------------- C29
\* percent = 100 * w * product of (upper - lower), where w = |unpacked| / count after
\* the 1-hot split (unpacked is then a pack) and 1 before; ranges are counted in units
\* of 1/RangeOne and percents in units of 1/Scale
PercentIsVolume(unpacked, ranges, percent) ==
    percent * count * Power(RangeOne, Cardinality(ranges))
        = Hundred * (IF unpacked = {} THEN count ELSE Cardinality(unpacked)) * total_size(ranges)

\* the chunks that ended feasible or abandoned, with how many times each did
EndedChunks == tookFeasible (+) tookAbandon

\* the points of the input space: a one-hot combination and, for every custom encoded
\* feature, a cell [c / RangeOne, (c + 1) / RangeOne]
OneHotCombinations == {SeqRange(item) : item \in one_hotn(cfg.uncontroversial1)}
Cells == [1..Len(cfg.uncontroversial2) -> 0..(RangeOne - 1)]

\* the chunk holds the one-hot combination and the cell
Holds(chunk, combination, cell) ==
    /\ chunk.unpacked = {} \/ combination \in chunk.unpacked
    /\ \A r \in chunk.ranges : r[2][1] <= cell[r[1]] /\ cell[r[1]] + 1 <= r[2][2]

\* how many of the ended chunks hold the point
TimesHeld(combination, cell) ==
    BagCardinality([chunk \in {c \in DOMAIN EndedChunks : Holds(c, combination, cell)}
                        |-> EndedChunks[chunk]])

\* the percent of every task and of every recorded or ended chunk is the volume it holds
PercentsAreVolumes ==
    /\ \A t \in TasksAround :
          /\ PercentIsVolume(t.unpacked, {<<f, t.ranges[f]>> : f \in 1..Len(t.ranges)}, t.percent)
          /\ t.unpacked # {} <=> (t.pivot1 = Len(cfg.uncontroversial1) /\ t.pivot1 > 0)
    /\ \A key \in DOMAIN patterns : \A chunk \in patterns[key] :
          PercentIsVolume(chunk.unpacked, chunk.ranges, chunk.percent)
    /\ \A chunk \in DOMAIN EndedChunks :
          PercentIsVolume(chunk.unpacked, chunk.ranges, chunk.percent)

\* no two ended chunks hold the same point (chunks may share a face of their ranges)
EndedChunksDisjoint ==
    \A combination \in OneHotCombinations : \A cell \in Cells : TimesHeld(combination, cell) <= 1

\* once the Worker-1 processes are joined, every point is held by an ended chunk
EndedChunksCover ==
    driver # "pre" =>
        \A combination \in OneHotCombinations : \A cell \in Cells : TimesHeld(combination, cell) >= 1

\* C29: for every task on Q1 and every recorded chunk, percent = 100 * w * product over
\* the custom encoded features of (upper - lower), where w = |unpacked| / count after
\* the 1-hot split and 1 before; the chunks that end feasible or abandoned are pairwise
\* disjoint and, when the pre-analysis is over, together cover the input space.
C29_PercentIsVolumeAndCover == PercentsAreVolumes /\ EndedChunksDisjoint /\ EndedChunksCover

\* the same, for the runs in which packing has a consumer
C29_PercentIsVolumeAndCoverWithConsumer == cfg.cpu > 1 => C29_PercentIsVolumeAndCover

\* the pre-analysis is over and the input space is covered by chunks of the 1-hot split
\* or of a bisection
C29_Covered ==
    /\ driver # "pre"
    /\ cfg.cpu > 1
    /\ \A combination \in OneHotCombinations : \A cell \in Cells : TimesHeld(combination, cell) = 1
    /\ BagCardinality(EndedChunks) > 1

\* ---------------------------------------------------------------- C30
\* the sentinels there are: on Q1, or taken by a Worker-1 that has still to re-post it
SentinelsAround ==
    Cardinality({i \in 1..Len(queue1) : IsSentinel(queue1[i])})
       + BagCardinality([w \in {v \in DOMAIN w1 : v.pc = "repost"} |-> w1[w]])

\* a Worker-1 holds a task whose percent it has not added to explored%
Outstanding(w) == w.pc \notin {"get", "repost", "exit", "record", "store"}

\* a sentinel exists exactly when explored% has reached 100, and there is one only; when
\* every Worker-1 has exited, Q1 holds one sentinel and nothing else
OneSentinel ==
    /\ SentinelsAround = (IF ReachedHundred(explored) THEN 1 ELSE 0)
    /\ (\A w \in DOMAIN w1 : w.pc = "exit") => queue1 = <<Sentinel>>

\* the step that detects explored% >= 100 is taken with explored% below 100, no
\* partition task on Q1 and no other Worker-1 holding a task that is not yet added to
\* explored%, and it puts the one sentinel
DetectedByTheLast ==
    [][(explored' # explored /\ ReachedHundred(explored')) =>
          /\ ~ReachedHundred(explored)
          /\ queue1 = <<>>
          /\ queue1' = <<Sentinel>>
          /\ \E w \in DOMAIN w1 :
                /\ w.pc \in {"explored", "abandon"}
                /\ CopiesIn(w, w1') < CopiesIn(w, w1)
                /\ \A v \in DOMAIN w1 : Outstanding(v) => (v = w /\ w1[w] = 1)]_vars

\* C30: the condition explored% >= 100 is detected exactly once per run, by the worker
\* that finishes the last outstanding chunk; exactly one sentinel is created by
\* detection and, after all the Worker-1 processes have each dequeued and re-posted a
\* sentinel and exited, Q1 holds exactly one sentinel and no partition task.
C30_DetectedExactlyOnce == []OneSentinel /\ DetectedByTheLast /\ <>ReachedHundred(explored)

\* the same, for the runs in which no Worker-1 fails in packing
C30_DetectedOnceUnlessCrashed ==
    []OneSentinel /\ DetectedByTheLast /\ <>(ReachedHundred(explored) \/ SomeWorker1Crashed)

\* ---------------------------------------------------------------- C31
\* the keys of the patterns dict under which chunk c is recorded, and the patterns on
\* Q2 that hold it
KeysWith(c) == {k \in DOMAIN patterns : c \in patterns[k]}
ItemsOnQ2With(c) == {i \in 1..Len(queue2) : queue2[i] # Sentinel2 /\ c \in queue2[i][1].pack}

\* once the Worker-1 processes are joined, the chunks of the tasks that took the
\* feasible branch are distinct, as many as partitions, each under one key of patterns
RecordedOnce ==
    driver # "pre" =>
        /\ \A c \in DOMAIN tookFeasible : tookFeasible[c] = 1 /\ Cardinality(KeysWith(c)) = 1
        /\ Cardinality(DOMAIN tookFeasible) = partitions
        /\ \A k \in DOMAIN patterns : patterns[k] \subseteq DOMAIN tookFeasible

\* after the compression every such chunk is under exactly one key of compressed
CompressedOnce ==
    driver \in {"load", "bias", "done"} =>
        /\ ChunksOf(compressed) = DOMAIN tookFeasible
        /\ \A c \in DOMAIN tookFeasible : Cardinality(EntriesWith(compressed, c)) = 1

\* in the analysis every chunk is in at most one pattern of Q2, and the chunks on Q2,
\* those of the patterns the Worker-2 processes hold and those counted in analyzed are
\* as many as partitions
CountedOnce ==
    driver \in {"bias", "done"} =>
        /\ \A c \in DOMAIN tookFeasible : Cardinality(ItemsOnQ2With(c)) <= 1
        /\ ChunksOnQ2(queue2) + ChunksHeld(w2) + analyzed = partitions
        /\ driver = "done" => ChunksOnQ2(queue2) = 0 /\ ChunksHeld(w2) = 0

\* a Worker-2 that takes a pattern from Q2 is the only one to hold it, and analyzed grows
\* only by the size of the pattern of the one Worker-2 that has finished it
CountedByOneWorker2 ==
    [][/\ \A w \in DOMAIN w2 :
             (w.pc = "get" /\ CopiesIn(w, w2') < CopiesIn(w, w2) /\ Head(queue2) # Sentinel2) =>
                /\ queue2' = Tail(queue2)
                /\ ChunksHeld(w2') = ChunksHeld(w2) + Cardinality(Head(queue2)[1].pack)
       /\ analyzed' # analyzed =>
             \E w \in DOMAIN w2 :
                /\ w.pc = "analyzed"
                /\ CopiesIn(w, w2') < CopiesIn(w, w2)
                /\ analyzed' = analyzed + w.size
                /\ ChunksHeld(w2') = ChunksHeld(w2) - w.size]_vars

\* C31: at the end of a run the analyzed counter equals the partitions counter: every
\* chunk recorded by the feasible branch is a distinct element of the patterns dict,
\* survives compression under exactly one key, and is counted exactly once by exactly
\* one Worker-2, under every interleaving.
C31_AnalyzedEqualsPartitions ==
    /\ [](driver = "done" => analyzed = partitions)
    /\ []RecordedOnce
    /\ []CompressedOnce
    /\ []CountedOnce
    /\ CountedByOneWorker2

\* a run of two processes has ended with two chunks recorded by the feasible branch and
\* counted in analyzed
C31_Witness ==
    /\ driver = "done"
    /\ cfg.cpu = 2
    /\ partitions = 2
    /\ analyzed = 2
    /\ BagCardinality(tookFeasible) = 2

====
